---- MODULE Spec2Model ----
(***************************************************************************)
(* A model of the fake-profile detector: FeatureExtractor, the four        *)
(* analyzers (content, activity, image, network), the decision step        *)
(* (trained classifier or red-flag heuristic), the indicator and           *)
(* recommendation rules, detector construction and batch analysis.         *)
(*                                                                         *)
(* Numbers.  Python floats are modelled by exact rationals [n, d] in       *)
(* lowest terms (d > 0); the two transcendental steps of the code (exp in  *)
(* the engagement logistic, sqrt in the posting regularity) are evaluated  *)
(* to 1/1000, rounded down.                                                *)
(***************************************************************************)
EXTENDS Integers, Sequences, FiniteSets, TLC

VARIABLES
    modelFile,    \* what is stored at model_path (NoClassifier: no file)
    model,        \* the detector: whether __init__ has run, and self.model
    now,          \* the wall clock, in ticks (TicksPerDay ticks a day)
    rng,          \* the state of Python's module-level random generator
    profile_data, \* the profile dict handed to the detector and the components
    result,       \* outcome of the latest analyze_profile call
    prev,         \* outcome of the analyze_profile call before it
    combined,     \* combined_features of the latest analyze_profile call
    batchIn,      \* the input file and platform handed to batch_analyze
    batch,        \* outcome of the latest batch_analyze call
    hin,          \* input of the decision functions under test (a feature map)
    hout,         \* their output
    comp,         \* outcome of the latest direct call of one component
    threads,      \* the threads analyzing concurrently: position and locals of each
    scan          \* a call of _detect_posting_bursts: its argument, position and locals

vars == <<modelFile, model, now, rng, profile_data, result, prev, combined, batchIn, batch,
          hin, hout, comp, threads, scan>>

----------------------------------------------------------------------------
(* Rational arithmetic *)

Abs(x) == IF x < 0 THEN -x ELSE x

RECURSIVE GCD(_, _)
GCD(a, b) == IF b = 0 THEN a ELSE GCD(b, a % b)

\* n/d in lowest terms, d > 0
Rat(n, d) ==
    LET g == GCD(Abs(n), d)
    IN  [n |-> n \div g, d |-> d \div g]

RInt(i) == [n |-> i, d |-> 1]

RAdd(x, y) ==
    LET g == GCD(x.d, y.d)
        l == (x.d \div g) * y.d
    IN  Rat(x.n * (l \div x.d) + y.n * (l \div y.d), l)

RSub(x, y) == RAdd(x, [n |-> -(y.n), d |-> y.d])

RMul(x, y) ==
    LET g1 == GCD(Abs(x.n), y.d)
        g2 == GCD(Abs(y.n), x.d)
    IN  IF x.n = 0 \/ y.n = 0 THEN RInt(0)
        ELSE [n |-> (x.n \div g1) * (y.n \div g2),
              d |-> (x.d \div g2) * (y.d \div g1)]

\* x / y for y # 0
RDiv(x, y) ==
    IF y.n > 0 THEN RMul(x, [n |-> y.d, d |-> y.n])
    ELSE RMul(x, [n |-> -(y.d), d |-> -(y.n)])

RLt(x, y) ==
    LET g == GCD(x.d, y.d)
    IN  x.n * (y.d \div g) < y.n * (x.d \div g)

RLe(x, y) == ~RLt(y, x)

RMin(x, y) == IF RLt(y, x) THEN y ELSE x

RMax(x, y) == IF RLt(x, y) THEN y ELSE x

Zero == RInt(0)
One == RInt(1)
Half == Rat(1, 2)

InUnit(x) == RLe(Zero, x) /\ RLe(x, One)

----------------------------------------------------------------------------
(* Python dicts as functions with a string domain *)

Has(f, k) == k \in DOMAIN f

\* dict.get(k, default)
Get(f, k, default) == IF k \in DOMAIN f THEN f[k] ELSE default

\* {**a, **b}: for a duplicate key the later map wins
Merge(a, b) == b @@ a

EmptyMap == [k \in {} |-> 0]

----------------------------------------------------------------------------
(* Classifier / heuristic decision  (detector.py) *)

\* the single decision threshold
FakeThreshold == Rat(7, 10)

\* the comparison with > in place of >=
IsFakeAtStrict(probability) == RLt(FakeThreshold, probability)

IsFakeAt(probability) == RLe(FakeThreshold, probability)

FlagNames == <<"new_account", "high_following_ratio", "excessive_posting",
               "suspicious_profile_pic", "low_engagement", "suspicious_content",
               "isolated_network", "duplicate_content", "no_bio">>

FlagSet == {FlagNames[i] : i \in 1..Len(FlagNames)}

\* the red flags with one comparison made non-strict (<= 30 days)
RedFlagsLoose(features) ==
    [f \in FlagSet |->
       CASE f = "new_account" ->
              RLe(Get(features, "account_age_days", RInt(365)), RInt(30))
         [] f = "high_following_ratio" ->
              RLt(Get(features, "followers_to_following_ratio", RInt(1)), Rat(1, 10))
         [] f = "excessive_posting" ->
              RLt(RInt(20), Get(features, "posts_per_day", RInt(2)))
         [] f = "suspicious_profile_pic" ->
              RLt(Rat(7, 10), Get(features, "profile_pic_score", RInt(0)))
         [] f = "low_engagement" ->
              RLt(Get(features, "engagement_rate", Rat(5, 100)), Rat(1, 100))
         [] f = "suspicious_content" ->
              RLt(Rat(7, 10), Get(features, "suspicious_content_score", RInt(0)))
         [] f = "isolated_network" ->
              RLt(Rat(7, 10), Get(features, "network_isolation_score", RInt(0)))
         [] f = "duplicate_content" ->
              RLt(Get(features, "content_diversity", RInt(1)), Rat(3, 10))
         [] f = "no_bio" ->
              RLt(Get(features, "bio_length", RInt(10)), RInt(5))]

RedFlags(features) ==
    [f \in FlagSet |->
       CASE f = "new_account" ->
              RLt(Get(features, "account_age_days", RInt(365)), RInt(30))
         [] f = "high_following_ratio" ->
              RLt(Get(features, "followers_to_following_ratio", RInt(1)), Rat(1, 10))
         [] f = "excessive_posting" ->
              RLt(RInt(20), Get(features, "posts_per_day", RInt(2)))
         [] f = "suspicious_profile_pic" ->
              RLt(Rat(7, 10), Get(features, "profile_pic_score", RInt(0)))
         [] f = "low_engagement" ->
              RLt(Get(features, "engagement_rate", Rat(5, 100)), Rat(1, 100))
         [] f = "suspicious_content" ->
              RLt(Rat(7, 10), Get(features, "suspicious_content_score", RInt(0)))
         [] f = "isolated_network" ->
              RLt(Rat(7, 10), Get(features, "network_isolation_score", RInt(0)))
         [] f = "duplicate_content" ->
              RLt(Get(features, "content_diversity", RInt(1)), Rat(3, 10))
         [] f = "no_bio" ->
              RLt(Get(features, "bio_length", RInt(10)), RInt(5))]

RedFlagCount(flags) == Cardinality({f \in FlagSet : flags[f]})

\* the probability with the flags' share scaled by 0.6 in place of 0.7
HeuristicProbabilityLow(count) ==
    RMin(RAdd(Rat(3, 10), RMul(Rat(count, Len(FlagNames)), Rat(6, 10))), One)

\* the probability from a base of 0.4 in place of 0.3
HeuristicProbabilityHigh(count) ==
    RMin(RAdd(Rat(4, 10), RMul(Rat(count, Len(FlagNames)), Rat(7, 10))), One)

HeuristicProbability(count) ==
    RMin(RAdd(Rat(3, 10), RMul(Rat(count, Len(FlagNames)), Rat(7, 10))), One)

HeuristicDetection(features) ==
    LET red_flags == RedFlags(features)
        probability == HeuristicProbability(RedFlagCount(red_flags))
    IN  [probability |-> probability,
         is_fake |-> IsFakeAt(probability),
         importance |-> [f \in FlagSet |->
                           IF red_flags[f] THEN Rat(1, 10) ELSE Zero]]

Indicator(name, description, severity) ==
    [name |-> name, description |-> description, severity |-> severity]

\* the sequence <<x>> when cond holds, the empty sequence otherwise
When(cond, x) == IF cond THEN <<x>> ELSE <<>>

\* the indicators read off the importance mapping: one for each flag whose
\* importance is positive, in the order of the flags
IndicatorsByImportance(features, importance) ==
      When(RLt(Zero, Get(importance, "new_account", Zero)),
           Indicator("New Account", "Account was created recently", "medium"))
   \o When(RLt(Zero, Get(importance, "high_following_ratio", Zero)),
           Indicator("Following/Follower Imbalance",
                     "Account follows many users but has few followers", "high"))
   \o When(RLt(Zero, Get(importance, "excessive_posting", Zero)),
           Indicator("Excessive Posting",
                     "Account posts with unusually high frequency", "medium"))
   \o When(RLt(Zero, Get(importance, "suspicious_profile_pic", Zero)),
           Indicator("Suspicious Profile Picture",
                     "Profile picture shows signs of being AI-generated or stock photo",
                     "high"))
   \o When(RLt(Zero, Get(importance, "low_engagement", Zero)),
           Indicator("Low Engagement",
                     "Posts receive very little engagement relative to follower count",
                     "medium"))
   \o When(RLt(Zero, Get(importance, "suspicious_content", Zero)),
           Indicator("Suspicious Content",
                     "Content contains patterns associated with fake accounts", "high"))
   \o When(RLt(Zero, Get(importance, "isolated_network", Zero)),
           Indicator("Isolated Network",
                     "Account has minimal interaction with legitimate accounts", "high"))
   \o When(RLt(Zero, Get(importance, "duplicate_content", Zero)),
           Indicator("Repetitive Content",
                     "Account posts very similar content repeatedly", "medium"))

IdentifySuspiciousIndicators(features, importance) ==
      When(RLt(Get(features, "account_age_days", RInt(365)), RInt(30)),
           Indicator("New Account", "Account was created recently", "medium"))
   \o When(RLt(Get(features, "followers_to_following_ratio", RInt(1)), Rat(1, 10)),
           Indicator("Following/Follower Imbalance",
                     "Account follows many users but has few followers", "high"))
   \o When(RLt(RInt(20), Get(features, "posts_per_day", RInt(2))),
           Indicator("Excessive Posting",
                     "Account posts with unusually high frequency", "medium"))
   \o When(RLt(Rat(7, 10), Get(features, "profile_pic_score", RInt(0))),
           Indicator("Suspicious Profile Picture",
                     "Profile picture shows signs of being AI-generated or stock photo",
                     "high"))
   \o When(RLt(Get(features, "engagement_rate", Rat(5, 100)), Rat(1, 100)),
           Indicator("Low Engagement",
                     "Posts receive very little engagement relative to follower count",
                     "medium"))
   \o When(RLt(Get(features, "content_diversity", RInt(1)), Rat(3, 10)),
           Indicator("Repetitive Content",
                     "Account posts very similar content repeatedly", "medium"))
   \o When(RLt(Rat(7, 10), Get(features, "suspicious_content_score", RInt(0))),
           Indicator("Suspicious Content",
                     "Content contains patterns associated with fake accounts", "high"))
   \o When(RLt(Rat(7, 10), Get(features, "network_isolation_score", RInt(0))),
           Indicator("Isolated Network",
                     "Account has minimal interaction with legitimate accounts", "high"))

HasIndicator(indicators, name) ==
    \E i \in 1..Len(indicators) : indicators[i].name = name

\* the recommendations with the probability bands tried before is_fake
RecommendationsByProbability(is_fake, probability, indicators) ==
      << IF is_fake /\ RLt(Rat(9, 10), probability)
           THEN "This profile is highly likely to be fake. Consider blocking and reporting."
         ELSE IF RLt(Rat(4, 10), probability)
           THEN "This profile shows some suspicious patterns but may be legitimate. Verify before engaging."
         ELSE IF is_fake
           THEN "This profile shows several suspicious patterns. Exercise caution when interacting."
         ELSE "This profile appears to be legitimate based on our analysis." >>
   \o When(HasIndicator(indicators, "New Account"),
           "This is a new account. Consider waiting for a longer activity history before engaging.")
   \o When(HasIndicator(indicators, "Suspicious Profile Picture"),
           "Verify the profile picture by performing a reverse image search.")
   \o When(HasIndicator(indicators, "Suspicious Content"),
           "Review the content posted by this account carefully before engaging.")

GenerateRecommendations(is_fake, probability, indicators) ==
      << IF is_fake /\ RLt(Rat(9, 10), probability)
           THEN "This profile is highly likely to be fake. Consider blocking and reporting."
         ELSE IF is_fake
           THEN "This profile shows several suspicious patterns. Exercise caution when interacting."
         ELSE IF RLt(Rat(4, 10), probability)
           THEN "This profile shows some suspicious patterns but may be legitimate. Verify before engaging."
         ELSE "This profile appears to be legitimate based on our analysis." >>
   \o When(HasIndicator(indicators, "New Account"),
           "This is a new account. Consider waiting for a longer activity history before engaging.")
   \o When(HasIndicator(indicators, "Suspicious Profile Picture"),
           "Verify the profile picture by performing a reverse image search.")
   \o When(HasIndicator(indicators, "Suspicious Content"),
           "Review the content posted by this account carefully before engaging.")

----------------------------------------------------------------------------
(* Profile records.

   A profile is a Python dict: a function whose domain is the set of keys
   present.  Strings are abstracted:
     - a date string is [fmt, day]: the format it is written in and the day
       it denotes;
     - a post is a dict with "text", "timestamp", "likes", "comments",
       "shares"; its text is [kind, pieces] with pieces the words separated
       by single blanks, its timestamp is [kind, t] with t in minutes;
     - a picture URL is [kind, default, seed, hash]: whether it is a string,
       whether it matches a default-picture pattern, its md5 value modulo
       1000 and the first 20 hex digits of its md5;
     - a bio is its length; a username is its length and digit counts;
     - relation lists are sequences of user-name strings.                   *)

NoneVal == [fmt |-> "None", day |-> 0]

DateFormats == <<"%Y-%m-%d", "%Y-%m-%dT%H:%M:%S", "%Y/%m/%d">>

\* the clock's resolution
TicksPerDay == 2

\* datetime.strptime(s, fmt): "ok", or the exception it raises
Strptime(s, fmt) ==
    IF s.fmt = "nonstring" THEN "TypeError"
    ELSE IF s.fmt = fmt THEN "ok"
    ELSE "ValueError"

\* the loop `for fmt in [...]: try: strptime; break; except ValueError: continue`
\* from position i on: the index of the first format that parses, 0 when none
\* does, -1 when strptime raises something else than ValueError
RECURSIVE FirstFormat(_, _, _)
FirstFormat(s, fmts, i) ==
    IF i > Len(fmts) THEN 0
    ELSE LET r == Strptime(s, fmts[i])
         IN  IF r = "ok" THEN i
             ELSE IF r = "ValueError" THEN FirstFormat(s, fmts, i + 1)
             ELSE -1

\* (datetime.now() - creation_date).days
DaysSince(clock, day) == (clock - day * TicksPerDay) \div TicksPerDay

\* a Python value used as a condition: None, "" and 0 are false
TruthyDate(s) == s.fmt # "None" /\ s.fmt # "empty"

----------------------------------------------------------------------------
(* Text pieces *)

\* piece -> what _tokenize(text.lower()) leaves of it ("" when nothing is left)
PieceToken(w) ==
    CASE w = "FREE" -> "free"
      [] w = "Good" -> "good"
      [] w = "!!!" -> ""
      [] w = "#ad" -> "ad"
      [] w = "@bob" -> "bob"
      [] OTHER -> w

\* len(piece)
PieceLen(w) ==
    CASE w \in {"good", "Good", "free", "FREE", "work", "from", "home", "@bob"} -> 4
      [] w \in {"bad", "!!!", "#ad"} -> 3
      [] w = "money" -> 5
      [] w = "hello" -> 5
      [] OTHER -> 4

RECURSIVE SumSeq(_)
SumSeq(s) == IF s = <<>> THEN 0 ELSE Head(s) + SumSeq(Tail(s))

\* len(text): the pieces and one blank between two of them
TextLen(text) ==
    IF text = <<>> THEN 0
    ELSE SumSeq([i \in 1..Len(text) |-> PieceLen(text[i])]) + (Len(text) - 1)

\* text.count(ch) for ch one of "#", "@"
CountChar(text, ch) ==
    Cardinality({i \in 1..Len(text) :
                   \/ ch = "#" /\ text[i] = "#ad"
                   \/ ch = "@" /\ text[i] = "@bob"})

\* ContentAnalyzer._tokenize(text.lower())
Tokenize(text) ==
    LET toks == [i \in 1..Len(text) |-> PieceToken(text[i])]
    IN  SelectSeq(toks, LAMBDA t : t # "")

----------------------------------------------------------------------------
(* Outcomes of a call *)

Returned(v) == [raised |-> FALSE, exc |-> "", value |-> v]

Raised(e) == [raised |-> TRUE, exc |-> e, value |-> EmptyMap]

----------------------------------------------------------------------------
(* Post timestamps  (feature_extractor.py 131-155, activity_analyzer.py 82-106) *)

\* the parse of one post's timestamp: <<t>> when a datetime results, <<>> when
\* the post is skipped
\* the parse with every timestamp taken as parsable
ParseTimestampAny(post) ==
    IF Has(post, "timestamp") THEN <<post["timestamp"].t>> ELSE <<>>

ParseTimestamp(post) ==
    IF ~Has(post, "timestamp") THEN <<>>
    ELSE LET ts == post["timestamp"]
         IN  CASE ts.kind = "unix" -> <<ts.t>>
               [] ts.kind = "overflow" -> <<>>
               [] ts.kind \in {"%Y-%m-%dT%H:%M:%S", "%Y-%m-%d %H:%M:%S"} -> <<ts.t>>
               [] ts.kind = "isoformat" -> <<ts.t>>
               [] OTHER -> <<>>

RECURSIVE PostTimestamps(_)
PostTimestamps(posts) ==
    IF posts = <<>> THEN <<>>
    ELSE ParseTimestamp(Head(posts)) \o PostTimestamps(Tail(posts))

----------------------------------------------------------------------------
(* FeatureExtractor  (utils/feature_extractor.py) *)

\* features['account_age_days'] as _extract_account_metrics leaves it: a map
\* with that key, or the empty map when the key is never set
AccountAgeFeature(profile, clock) ==
    LET creation_date_str == Get(profile, "creation_date", NoneVal)
    IN  IF TruthyDate(creation_date_str)
        THEN LET i == FirstFormat(creation_date_str, DateFormats, 1)
             IN  IF i = -1
                   THEN "account_age_days" :> RInt(365)
                 ELSE IF i > 0
                   THEN "account_age_days" :>
                            RInt(DaysSince(clock, creation_date_str.day))
                 ELSE EmptyMap
        ELSE "account_age_days" :> RInt(365)

ExtractAccountMetrics(profile, clock) ==
    LET followers_count ==
            IF Has(profile, "followers_count") THEN profile["followers_count"]
            ELSE IF Has(profile, "friend_count") THEN profile["friend_count"]
            ELSE 0
        following_count ==
            IF Has(profile, "following_count") THEN profile["following_count"]
            ELSE 0
        ratio ==
            IF following_count > 0 THEN Rat(followers_count, following_count)
            ELSE IF followers_count = 0 THEN RInt(1) ELSE RInt(100)
        post_count ==
            IF Has(profile, "post_count") THEN profile["post_count"]
            ELSE Len(Get(profile, "posts", <<>>))
    IN  Merge(AccountAgeFeature(profile, clock),
              [followers_count |-> RInt(followers_count),
               following_count |-> RInt(following_count),
               followers_to_following_ratio |-> ratio,
               post_count |-> RInt(post_count)])

\* _extract_activity_features starts from its own empty `features` dict, so the
\* lookups of account_age_days, post_count and followers_count in it find nothing.
\* With one parsed timestamp or more, the entropy line calls p.log() on a float
\* and AttributeError leaves the method.
ExtractActivityFeatures(profile) ==
    LET features == EmptyMap
        posts == Get(profile, "posts", <<>>)
        post_timestamps == PostTimestamps(posts)
        posts_per_day ==
            IF Has(features, "account_age_days")
               /\ RLt(Zero, features["account_age_days"])
            THEN RDiv(Get(features, "post_count", Zero), features["account_age_days"])
            ELSE Zero
        total_engagement ==
            SumSeq([i \in 1..Len(posts) |->
                      Get(posts[i], "likes", 0) + Get(posts[i], "comments", 0)
                      + (IF Has(posts[i], "shares") THEN posts[i]["shares"]
                         ELSE Get(posts[i], "retweets", 0))])
        total_posts == Len(posts)
        engagement_rate ==
            IF total_posts > 0 /\ RLt(Zero, Get(features, "followers_count", Zero))
            THEN RDiv(Rat(total_engagement, total_posts), features["followers_count"])
            ELSE Zero
    IN  IF post_timestamps # <<>>
        THEN Raised("AttributeError")
        ELSE Returned([posts_per_day |-> posts_per_day,
                       median_hours_between_posts |-> RInt(24),
                       posting_time_entropy |-> Zero,
                       time_consistency |-> Half,
                       engagement_rate |-> engagement_rate])

\* a post's text is [kind, pieces]: kind "str" (the pieces joined by blanks),
\* "blank" (blanks only) or "None"
EmptyStr == [kind |-> "str", pieces |-> <<>>]

\* a text used as a condition: None and "" are false
TruthyText(text) == text.kind = "blank" \/ (text.kind = "str" /\ text.pieces # <<>>)

\* len(text)
StrLen(text) == IF text.kind = "blank" THEN 1 ELSE TextLen(text.pieces)

\* the texts _extract_content_features collects: post.get('text', '') or
\* post.get('caption', ''), kept when true (no post of the model has a caption)
RECURSIVE ExtractorTexts(_)
ExtractorTexts(posts) ==
    IF posts = <<>> THEN <<>>
    ELSE LET post == Head(posts)
             text == IF TruthyText(Get(post, "text", EmptyStr)) THEN post["text"]
                     ELSE Get(post, "caption", EmptyStr)
         IN  When(TruthyText(text), text) \o ExtractorTexts(Tail(posts))

ExtractContentFeatures(profile) ==
    LET posts == Get(profile, "posts", <<>>)
        post_texts == ExtractorTexts(posts)
        n == Len(post_texts)
        total(f(_)) == SumSeq([i \in 1..n |-> f(post_texts[i])])
        hashes(t) == CountChar(t.pieces, "#")
        ats(t) == CountChar(t.pieces, "@")
    IN  [bio_length |-> RInt(Get(profile, "bio", 0)),
         has_external_url |->
            IF Get(profile, "external_url", FALSE)
               \/ Get(profile, "has_external_url", FALSE)
            THEN RInt(1) ELSE RInt(0),
         avg_post_length |-> IF n > 0 THEN Rat(total(StrLen), n) ELSE Zero,
         hashtags_per_post |-> IF n > 0 THEN Rat(total(hashes), n) ELSE Zero,
         urls_per_post |-> Zero,
         mentions_per_post |-> IF n > 0 THEN Rat(total(ats), n) ELSE Zero,
         emojis_per_post |-> Zero]

ExtractProfileFeatures(profile) ==
    LET username == Get(profile, "username", [length |-> 0, digits |-> 0,
                                              underscores |-> 0, run |-> 0])
        profile_fields == {"bio", "location", "profile_pic_url", "name", "display_name"}
        filled(k) == IF k = "bio" THEN Get(profile, "bio", 0) > 0 ELSE Has(profile, k)
    IN  [is_verified |->
            IF Get(profile, "verified", FALSE) \/ Get(profile, "is_verified", FALSE)
            THEN RInt(1) ELSE RInt(0),
         is_private |-> IF Get(profile, "is_private", FALSE) THEN RInt(1) ELSE RInt(0),
         username_length |-> RInt(username.length),
         username_digit_ratio |->
            IF username.length > 0 THEN Rat(username.digits, username.length) ELSE Zero,
         username_underscore_count |-> RInt(username.underscores),
         username_max_consecutive_digits |-> RInt(username.run),
         profile_completeness |->
            Rat(Cardinality({k \in profile_fields : filled(k)}),
                Cardinality(profile_fields))]

ExtractFeatures(profile, clock) ==
    LET activity == ExtractActivityFeatures(profile)
    IN  IF activity.raised THEN activity
        ELSE Returned(
               Merge(Merge(Merge(ExtractAccountMetrics(profile, clock),
                                 activity.value),
                           ExtractContentFeatures(profile)),
                     ExtractProfileFeatures(profile)))

----------------------------------------------------------------------------
(* ContentAnalyzer  (features/content_analyzer.py) *)

positive_words ==
    {"good", "great", "excellent", "amazing", "wonderful", "best", "love", "happy",
     "awesome", "nice", "fantastic", "beautiful", "perfect", "enjoy", "thanks",
     "thank", "appreciated", "like", "excited", "glad", "pleased", "impressive",
     "well"}

negative_words ==
    {"bad", "terrible", "awful", "horrible", "worst", "hate", "dislike", "poor",
     "disappointed", "disappointing", "sucks", "suck", "sad", "angry", "upset",
     "unfortunate", "wrong", "never", "problem", "issue", "fail", "failed",
     "failure"}

suspicious_keywords ==
    {"money", "cash", "earn", "income", "rich", "wealthy", "profit", "investment",
     "invest", "bitcoin", "crypto", "cryptocurrency", "forex", "trading", "trader",
     "stocks", "btc", "eth",
     "offer", "free", "discount", "deal", "promo", "promotion", "limited",
     "exclusive", "opportunity", "chance", "lifetime",
     "job", "career", "hiring", "remote", "work", "home", "online", "passive",
     "salary", "payday", "loan", "loans",
     "hot", "sexy", "dating", "date", "single", "chat", "meet", "hookup", "adult",
     "cam", "webcam", "girl", "girls", "boys",
     "click", "tap", "join", "register", "sign", "subscribe", "follow", "dm", "pm",
     "message", "contact", "link", "bio",
     "weight", "loss", "diet", "slim", "fat", "burn", "health", "pill",
     "supplement", "vitamin", "detox", "cleanse", "inches",
     "urgent", "hurry", "quick", "fast", "immediately", "now", "today", "tonight",
     "soon", "act", "action"}

\* The spam patterns that are fixed words joined by \s+, as word sequences.  The
\* other patterns of the list need characters ($, digits, @ with a dot, ://) or
\* words that no text of the model contains.
spam_patterns ==
    << <<"free", "money">>, <<"work", "from", "home">>, <<"get", "rich">>,
       <<"lose", "weight">>, <<"diet", "pill">>, <<"miracle", "cure">> >>

\* text.lower(), piece by piece
LowerPiece(w) ==
    CASE w = "FREE" -> "free"
      [] w = "Good" -> "good"
      [] OTHER -> w

\* pattern.search(text) under re.IGNORECASE
PatternSearch(pattern, pieces) ==
    \E i \in 1..Len(pieces) :
        /\ i + Len(pattern) - 1 <= Len(pieces)
        /\ \A j \in 1..Len(pattern) : LowerPiece(pieces[i + j - 1]) = pattern[j]

CountIn(toks, words) == Cardinality({i \in 1..Len(toks) : toks[i] \in words})

AnalyzeSentiment(texts) ==
    LET positive_count ==
            SumSeq([i \in 1..Len(texts) |-> CountIn(Tokenize(texts[i]), positive_words)])
        negative_count ==
            SumSeq([i \in 1..Len(texts) |-> CountIn(Tokenize(texts[i]), negative_words)])
        total == positive_count + negative_count
    IN  IF total = 0 THEN Half
        ELSE RAdd(Half, Rat(positive_count - negative_count, 2 * total))

RECURSIVE Flatten(_)
Flatten(ss) == IF ss = <<>> THEN <<>> ELSE Head(ss) \o Flatten(Tail(ss))

CalculateContentDiversity(texts) ==
    LET all_tokens == Flatten([i \in 1..Len(texts) |-> Tokenize(texts[i])])
        unique_tokens == Cardinality({all_tokens[i] : i \in 1..Len(all_tokens)})
        total_tokens == Len(all_tokens)
    IN  IF texts = <<>> THEN One
        ELSE IF all_tokens = <<>> THEN One
        ELSE LET ttr == Rat(unique_tokens, total_tokens)
             IN  RMul(ttr, RSub(One, RMul(Half, Rat(1, 1 + Len(texts)))))

DetectSpamPatterns(texts) ==
    SumSeq([i \in 1..Len(texts) |->
              Cardinality({k \in 1..Len(spam_patterns) :
                             PatternSearch(spam_patterns[k], texts[i])})])

CountSuspiciousKeywords(texts) ==
    SumSeq([i \in 1..Len(texts) |->
              LET toks == Tokenize(texts[i])
                  words == {toks[j] : j \in 1..Len(toks)}
              IN  Cardinality(words \cap suspicious_keywords)])

CalculateSuspiciousScore(sentiment_score, content_diversity, spam_matches, keyword_ratio, post_count) ==
    LET deviation == RSub(sentiment_score, Half)
        sentiment_factor == RMul(RInt(2), [n |-> Abs(deviation.n), d |-> deviation.d])
        diversity_factor == RSub(One, content_diversity)
        spam_factor == IF post_count > 0
                       THEN RMin(One, Rat(spam_matches, post_count))
                       ELSE Zero
    IN  RAdd(RAdd(RMul(Rat(1, 10), sentiment_factor),
                  RMul(Rat(35, 100), diversity_factor)),
             RAdd(RMul(Rat(35, 100), spam_factor),
                  RMul(Rat(2, 10), RMin(One, RMul(keyword_ratio, RInt(10))))))

ContentDefaults ==
    [content_analysis_performed |-> FALSE,
     sentiment_score |-> Half,
     content_diversity |-> One,
     suspicious_content_score |-> Zero,
     spam_pattern_matches |-> RInt(0)]

ContentAnalyze(profile) ==
    LET posts == Get(profile, "posts", <<>>)
        raw == [i \in 1..Len(posts) |-> Get(posts[i], "text", EmptyStr)]
        kept == SelectSeq(raw, LAMBDA t : t.kind = "str" /\ t.pieces # <<>>)
        post_texts == [i \in 1..Len(kept) |-> kept[i].pieces]
    IN  IF posts = <<>> THEN Returned(ContentDefaults)
        ELSE IF \E i \in 1..Len(raw) : raw[i].kind = "None"
          THEN Raised("AttributeError")
        ELSE IF post_texts = <<>> THEN Returned(ContentDefaults)
        ELSE LET sentiment_score == AnalyzeSentiment(post_texts)
                 content_diversity == CalculateContentDiversity(post_texts)
                 spam_pattern_matches == DetectSpamPatterns(post_texts)
                 suspicious_keywords_count == CountSuspiciousKeywords(post_texts)
                 total_words ==
                     SumSeq([i \in 1..Len(post_texts) |-> Len(Tokenize(post_texts[i]))])
                 keyword_ratio ==
                     IF total_words > 0
                     THEN Rat(suspicious_keywords_count, total_words)
                     ELSE Zero
             IN  Returned(
                   [content_analysis_performed |-> TRUE,
                    sentiment_score |-> sentiment_score,
                    content_diversity |-> content_diversity,
                    suspicious_content_score |->
                        CalculateSuspiciousScore(sentiment_score, content_diversity,
                            spam_pattern_matches, keyword_ratio, Len(post_texts)),
                    spam_pattern_matches |-> RInt(spam_pattern_matches),
                    suspicious_keywords_count |-> RInt(suspicious_keywords_count),
                    keyword_ratio |-> keyword_ratio])

----------------------------------------------------------------------------
(* ActivityAnalyzer  (features/activity_analyzer.py) *)

\* sorted(timestamps)
RECURSIVE Insert(_, _)
Insert(x, s) ==
    IF s = <<>> THEN <<x>>
    ELSE IF x <= Head(s) THEN <<x>> \o s
    ELSE <<Head(s)>> \o Insert(x, Tail(s))

RECURSIVE Sorted(_)
Sorted(s) == IF s = <<>> THEN <<>> ELSE Insert(Head(s), Sorted(Tail(s)))

\* the largest r in lo..hi with r * r <= x  (lo * lo <= x)
RECURSIVE SqrtBetween(_, _, _)
SqrtBetween(x, lo, hi) ==
    IF lo >= hi THEN lo
    ELSE LET mid == (lo + hi + 1) \div 2
         IN  IF mid * mid <= x THEN SqrtBetween(x, mid, hi)
             ELSE SqrtBetween(x, lo, mid - 1)

\* the largest k among 1000, 100, 10, 1 with x * k * k below 2^31
SqrtScale(x) ==
    IF x <= 2000 THEN 1000
    ELSE IF x <= 200000 THEN 100
    ELSE IF x <= 20000000 THEN 10
    ELSE 1

\* 1 / (1 + exp(-0.1 * (x - 10))) in thousandths, rounded down, for integer x
\* from -60 to 80
LogisticTable ==
    << 0, 1, 1, 1, 1, 1, 1, 1, 2, 2, 2, 2, 3, 3, 3,
       4, 4, 4, 5, 6, 6, 7, 8, 9, 9, 10, 12, 13, 14, 16,
       17, 19, 21, 24, 26, 29, 32, 35, 39, 43, 47, 52, 57, 62, 69,
       75, 83, 91, 99, 109, 119, 130, 141, 154, 167, 182, 197, 214, 231, 249,
       268, 289, 310, 331, 354, 377, 401, 425, 450, 475, 500, 524, 549, 574, 598,
       622, 645, 668, 689, 710, 731, 750, 768, 785, 802, 817, 832, 845, 858, 869,
       880, 890, 900, 908, 916, 924, 930, 937, 942, 947, 952, 956, 960, 964, 967,
       970, 973, 975, 978, 980, 982, 983, 985, 986, 987, 989, 990, 990, 991, 992,
       993, 993, 994, 995, 995, 995, 996, 996, 996, 997, 997, 997, 997, 998, 998,
       998, 998, 998, 998, 998, 999 >>

\* the logistic at the rational x, evaluated at floor(x)
Logistic(x) ==
    LET fl == x.n \div x.d
    IN  IF fl < -60 THEN Zero
        ELSE IF fl > 80 THEN Rat(999, 1000)
        ELSE Rat(LogisticTable[fl + 61], 1000)

\* the account age ActivityAnalyzer.analyze computes for itself
ActivityAccountAge(profile, clock) ==
    LET creation_date_str == Get(profile, "creation_date", NoneVal)
        i == FirstFormat(creation_date_str, DateFormats, 1)
    IN  IF TruthyDate(creation_date_str) /\ i > 0
        THEN DaysSince(clock, creation_date_str.day)
        ELSE 365

CalculatePostingFrequency(posts, account_age_days) ==
    LET age == IF account_age_days <= 0 THEN 1 ELSE account_age_days
    IN  Rat(Len(posts), age)

\* the engagement per post on a linear scale: a hundredth of the average,
\* capped at 1
CalculateEngagementRateLinear(posts) ==
    LET total_posts == Len(posts)
        total_engagement ==
            SumSeq([i \in 1..Len(posts) |->
                      Get(posts[i], "likes", 0) + Get(posts[i], "comments", 0)
                      + Get(posts[i], "shares", 0)])
    IN  IF total_posts = 0 THEN Zero
        ELSE RMin(One, Rat(total_engagement, 100 * total_posts))

CalculateEngagementRate(posts) ==
    LET total_posts == Len(posts)
        total_engagement ==
            SumSeq([i \in 1..Len(posts) |->
                      Get(posts[i], "likes", 0) + Get(posts[i], "comments", 0)
                      + Get(posts[i], "shares", 0)])
    IN  IF total_posts = 0 THEN Zero
        ELSE Logistic(Rat(total_engagement, total_posts))

AnalyzePostingRegularity(timestamps) ==
    IF Len(timestamps) < 2 THEN Half
    ELSE LET sorted_timestamps == Sorted(timestamps)
             time_diffs == [i \in 1..(Len(timestamps) - 1) |->
                              sorted_timestamps[i + 1] - sorted_timestamps[i]]
             n == Len(time_diffs)
             s == SumSeq(time_diffs)
             q == SumSeq([i \in 1..n |-> time_diffs[i] * time_diffs[i]])
             \* std / mean = sqrt(n * q - s * s) / s
             x == n * q - s * s
             k == SqrtScale(x)
             \* floor(sqrt(x * k * k)), below 2^31
             root == SqrtBetween(x * k * k, 0, 46340)
             cv == Rat((1000 * root) \div (k * s), 1000)
         IN  IF s = 0 THEN One
             ELSE RMax(Zero, RMin(One, RSub(One, RMul(cv, Half))))

\* the densest window among those that do not pass midnight
AnalyzeTimeZoneNoWrap(timestamps) ==
    IF Len(timestamps) < 5 THEN Half
    ELSE LET hours == [i \in 1..Len(timestamps) |-> (timestamps[i] \div 60) % 24]
             window_posts(start_hour) ==
                 Cardinality({i \in 1..Len(hours) :
                                 hours[i] >= start_hour /\ hours[i] < start_hour + 8})
             max_window_posts ==
                 CHOOSE m \in {window_posts(h) : h \in 0..23} :
                     \A h \in 0..23 : window_posts(h) <= m
         IN  Rat(max_window_posts, Len(hours))

AnalyzeTimeZoneConsistency(timestamps) ==
    IF Len(timestamps) < 5 THEN Half
    ELSE LET hours == [i \in 1..Len(timestamps) |-> (timestamps[i] \div 60) % 24]
             hour_counts(h) == Cardinality({i \in 1..Len(hours) : hours[i] = h})
             window_posts(start_hour) ==
                 SumSeq([d \in 1..8 |-> hour_counts((start_hour + d - 1) % 24)])
             max_window_posts ==
                 CHOOSE m \in {window_posts(h) : h \in 0..23} :
                     \A h \in 0..23 : window_posts(h) <= m
         IN  Rat(max_window_posts, Len(hours))

\* the number of posts from position i on that lie within the window
RECURSIVE WindowEnd(_, _, _)
WindowEnd(ts, j, window_end) ==
    IF j <= Len(ts) /\ ts[j] <= window_end
    THEN WindowEnd(ts, j + 1, window_end)
    ELSE j

\* the outer loop of _detect_posting_bursts from position i on
RECURSIVE BurstScan(_, _, _)
BurstScan(ts, i, bursts) ==
    IF i > Len(ts) THEN bursts
    ELSE LET j == WindowEnd(ts, i, ts[i] + 10)
             window_posts == j - i
         IN  IF window_posts >= 3 THEN BurstScan(ts, j, bursts + 1)
             ELSE BurstScan(ts, i + 1, bursts)

\* the scan over the timestamps in the order of the posts
DetectPostingBurstsUnsorted(timestamps) ==
    IF Len(timestamps) < 3 THEN 0
    ELSE BurstScan(timestamps, 1, 0)

DetectPostingBursts(timestamps) ==
    IF Len(timestamps) < 3 THEN 0
    ELSE BurstScan(Sorted(timestamps), 1, 0)

\* no clamping
ClampNone(x) == x

\* max(0, min(1, x))
Clamp01(x) == RMax(Zero, RMin(One, x))

CalculateActivityScore(account_age_days, posts_per_day, posting_regularity, engagement_rate, time_zone_consistency, posting_bursts) ==
    LET age_factor == Clamp01(RSub(One, Rat(account_age_days, 180)))
        frequency_factor ==
            IF RLt(RInt(15), posts_per_day)
              THEN RMin(One, RDiv(RSub(posts_per_day, RInt(15)), RInt(10)))
            ELSE IF RLt(posts_per_day, Rat(5, 100))
              THEN RMin(One, RDiv(RSub(Rat(5, 100), posts_per_day), Rat(5, 100)))
            ELSE Zero
        regularity_factor ==
            IF RLt(Rat(8, 10), posting_regularity) THEN posting_regularity ELSE Zero
        engagement_factor == Clamp01(RSub(One, RMul(engagement_rate, RInt(10))))
        time_zone_factor == Clamp01(RSub(One, time_zone_consistency))
        burst_factor == RMin(One, Rat(posting_bursts, 5))
    IN  RAdd(RAdd(RAdd(RMul(Rat(15, 100), age_factor),
                       RMul(Rat(2, 10), frequency_factor)),
                  RAdd(RMul(Rat(15, 100), regularity_factor),
                       RMul(Rat(25, 100), engagement_factor))),
             RAdd(RMul(Rat(1, 10), time_zone_factor),
                  RMul(Rat(15, 100), burst_factor)))

\* the defaults with the three neutral scores at the other end of the scale
ActivityDefaultsHigh ==
    [activity_analysis_performed |-> FALSE,
     posts_per_day |-> Zero,
     engagement_rate |-> Zero,
     posting_regularity |-> One,
     activity_score |-> One,
     time_zone_consistency |-> One]

\* the dict returned when there are no posts (lines 48-55)
ActivityDefaults ==
    [activity_analysis_performed |-> FALSE,
     posts_per_day |-> Zero,
     engagement_rate |-> Zero,
     posting_regularity |-> Half,
     activity_score |-> Half,
     time_zone_consistency |-> Half]

ActivityAnalyze(profile, clock) ==
    LET posts == Get(profile, "posts", <<>>)
        account_age_days == ActivityAccountAge(profile, clock)
        posts_per_day == CalculatePostingFrequency(posts, account_age_days)
        post_timestamps == PostTimestamps(posts)
        posting_regularity ==
            IF post_timestamps # <<>> THEN AnalyzePostingRegularity(post_timestamps)
            ELSE Half
        time_zone_consistency ==
            IF post_timestamps # <<>> THEN AnalyzeTimeZoneConsistency(post_timestamps)
            ELSE Half
        posting_bursts ==
            IF post_timestamps # <<>> THEN DetectPostingBursts(post_timestamps)
            ELSE 0
        engagement_rate == CalculateEngagementRate(posts)
    IN  IF posts = <<>>
        THEN Returned(ActivityDefaults)
        ELSE Returned([activity_analysis_performed |-> TRUE,
                       account_age_days |-> RInt(account_age_days),
                       posts_per_day |-> posts_per_day,
                       posting_regularity |-> posting_regularity,
                       time_zone_consistency |-> time_zone_consistency,
                       engagement_rate |-> engagement_rate,
                       posting_bursts |-> RInt(posting_bursts),
                       activity_score |->
                           CalculateActivityScore(account_age_days, posts_per_day,
                               posting_regularity, engagement_rate,
                               time_zone_consistency, posting_bursts)])

----------------------------------------------------------------------------
(* Python's module-level random generator, abstracted to RngStates states:
   random.seed(s) puts it in a state fixed by s, random.random() returns a
   value of [0, 1) fixed by the state and moves to the next state.          *)

RngStates == 4

RandomSeed(s) == s % RngStates

RandomValue(state) == Rat(state, RngStates)

RandomNext(state) == (5 * state + 3) % RngStates

----------------------------------------------------------------------------
(* ImageAnalyzer  (features/image_analyzer.py)

   A picture URL is [kind, default, seed, hash]: kind "str" or "nonstring",
   whether it matches one of the default-picture patterns, int(md5(url), 16)
   modulo 1000, and the first 20 hex digits of md5(url).                     *)

known_fake_image_hashes ==
    {"a1b2c3d4e5f6g7h8i9j0", "b2c3d4e5f6g7h8i9j0k1", "c3d4e5f6g7h8i9j0k1l2",
     "d4e5f6g7h8i9j0k1l2m3", "e5f6g7h8i9j0k1l2m3n4", "f6g7h8i9j0k1l2m3n4o5",
     "g7h8i9j0k1l2m3n4o5p6", "h8i9j0k1l2m3n4o5p6q7", "i9j0k1l2m3n4o5p6q7r8",
     "j0k1l2m3n4o5p6q7r8s9"}

IsDefaultProfilePicture(url) == url.default

SimulateImageHash(url) == url.hash

\* _simulate_ai_detection without its random.seed call: the draw continues
\* from whatever state the generator is in
SimulateAiDetectionUnseeded(url, r) ==
    <<RLt(RandomValue(r), Rat(15, 100)), RandomNext(r)>>

\* _simulate_ai_detection from generator state r: <<result, state after>>
SimulateAiDetection(url, r) ==
    LET seeded == RandomSeed(url.seed)
    IN  <<RLt(RandomValue(seeded), Rat(15, 100)), RandomNext(seeded)>>

\* _simulate_quality_score from generator state r: <<result, state after>>
SimulateQualityScore(url, r) ==
    LET seeded == RandomSeed(url.seed)
    IN  <<RAdd(Rat(3, 10), RMul(RandomValue(seeded), Rat(7, 10))), RandomNext(seeded)>>

\* the score with a default image weighted like a stock photo
CalculateProfilePicScoreHeavy(is_default, is_stock, is_ai_generated, quality_score) ==
    LET base_score ==
            RAdd(RAdd(Rat(3, 10), IF is_default THEN Rat(3, 10) ELSE Zero),
                 RAdd(IF is_stock THEN Rat(3, 10) ELSE Zero,
                      IF is_ai_generated THEN Rat(4, 10) ELSE Zero))
        quality_factor == RMul(RSub(One, quality_score), Rat(2, 10))
    IN  RMin(One, RAdd(base_score, quality_factor))

CalculateProfilePicScore(is_default, is_stock, is_ai_generated, quality_score) ==
    LET base_score ==
            RAdd(RAdd(Rat(3, 10), IF is_default THEN Rat(2, 10) ELSE Zero),
                 RAdd(IF is_stock THEN Rat(3, 10) ELSE Zero,
                      IF is_ai_generated THEN Rat(4, 10) ELSE Zero))
        quality_factor == RMul(RSub(One, quality_score), Rat(2, 10))
    IN  RMin(One, RAdd(base_score, quality_factor))

\* what ImageAnalyzer.analyze returns for picture URL url when
\* _simulate_ai_detection gave ai and _simulate_quality_score gave quality
ImageResult(url, ai, quality) ==
    LET is_default == IsDefaultProfilePicture(url)
        is_stock == IF is_default THEN FALSE
                    ELSE SimulateImageHash(url) \in known_fake_image_hashes
        is_ai_generated == IF is_default THEN FALSE ELSE ai
        quality_score == IF is_default THEN Half ELSE quality
    IN  IF url.kind = "None"
          THEN Returned([image_analysis_performed |-> FALSE,
                         profile_pic_score |-> Half,
                         is_default_image |-> FALSE,
                         is_stock_photo |-> FALSE,
                         is_ai_generated |-> FALSE])
        ELSE IF url.kind = "nonstring"
          THEN Returned([image_analysis_performed |-> FALSE,
                         profile_pic_score |-> Half,
                         error |-> "TypeError"])
        ELSE Returned(
               [image_analysis_performed |-> TRUE,
                profile_pic_score |->
                    CalculateProfilePicScore(is_default, is_stock,
                                             is_ai_generated, quality_score),
                is_default_image |-> is_default,
                is_stock_photo |-> is_stock,
                is_ai_generated |-> is_ai_generated,
                image_quality_score |-> quality_score,
                image_hash |-> IF is_default THEN "" ELSE SimulateImageHash(url)])

\* whether analyze reaches _analyze_image, the only user of the generator
UsesGenerator(url) == url.kind = "str" /\ ~IsDefaultProfilePicture(url)

\* ImageAnalyzer.analyze from generator state r, run without interruption:
\* [out, rng]
ImageAnalyze(profile, r) ==
    LET url == Get(profile, "profile_pic_url",
                  [kind |-> "None", default |-> FALSE, seed |-> 0, hash |-> ""])
        ai == SimulateAiDetection(url, r)
        quality == SimulateQualityScore(url, ai[2])
    IN  [out |-> ImageResult(url, ai[1], quality[1]),
         rng |-> IF UsesGenerator(url) THEN quality[2] ELSE r]

----------------------------------------------------------------------------
(* NetworkAnalyzer  (features/network_analyzer.py) *)

\* an entry of a followers, following or interactions list is [kind, id]: a
\* string ("str"), a dict whose id, user_id or username is id ("dict", with ""
\* for a dict without any of them), or a number ("int")
User(id) == [kind |-> "str", id |-> id]

\* set(self._extract_user_ids(users_list)): a string is its own ID, a dict
\* gives its ID when it has a truthy one, anything else is skipped
UserIds(users_list) ==
    {users_list[i].id :
       i \in {k \in 1..Len(users_list) :
                \/ users_list[k].kind = "str"
                \/ users_list[k].kind = "dict" /\ users_list[k].id # ""}}

\* _calculate_ratio without its zero-followers case
CalculateRatioNoZero(followers, following) ==
    IF following = 0 THEN RInt(100) ELSE Rat(followers, following)

CalculateRatio(followers, following) ==
    IF following = 0
    THEN IF followers = 0 THEN RInt(1) ELSE RInt(100)
    ELSE Rat(followers, following)

EstimateIsolationFromCounts(followers_count, following_count) ==
    LET follower_factor ==
            IF followers_count < 10 THEN Rat(8, 10)
            ELSE IF followers_count < 50 THEN Rat(5, 10)
            ELSE IF followers_count < 100 THEN Rat(3, 10)
            ELSE Rat(1, 10)
        following_factor ==
            IF following_count > 1000 /\ followers_count < 100 THEN Rat(7, 10)
            ELSE IF following_count > 500 /\ followers_count < 50 THEN Rat(6, 10)
            ELSE Rat(2, 10)
    IN  RAdd(RMul(Half, follower_factor), RMul(Half, following_factor))

CalculateNetworkIsolation(followers, following, interactions, followers_count, following_count) ==
    LET follower_ids == UserIds(followers)
        following_ids == UserIds(following)
        interaction_ids == UserIds(interactions)
        followers_interacted == Cardinality(follower_ids \cap interaction_ids)
        follower_interaction_ratio ==
            IF Cardinality(follower_ids) > 0
            THEN Rat(followers_interacted, Cardinality(follower_ids))
            ELSE Zero
        mutual == Cardinality(follower_ids \cap following_ids)
        mutual_ratio ==
            IF Cardinality(following_ids) > 0
            THEN Rat(mutual, Cardinality(following_ids))
            ELSE Zero
    IN  RSub(One, RAdd(RMul(Rat(7, 10), mutual_ratio),
                       RMul(Rat(3, 10), follower_interaction_ratio)))

\* the mutual connections as a share of the followers
AnalyzeMutualByFollowers(followers, following) ==
    LET follower_ids == UserIds(followers)
        following_ids == UserIds(following)
    IN  IF follower_ids = {} THEN Half
        ELSE Rat(Cardinality(follower_ids \cap following_ids),
                 Cardinality(follower_ids))

AnalyzeMutualConnections(followers, following) ==
    LET follower_ids == UserIds(followers)
        following_ids == UserIds(following)
    IN  IF following_ids = {} THEN Half
        ELSE Rat(Cardinality(follower_ids \cap following_ids),
                 Cardinality(following_ids))

\* the share of overlap without the adjustment to the typical range
EstimateClusteringRaw(followers, following, interactions) ==
    LET follower_ids == UserIds(followers)
        following_ids == UserIds(following)
        interaction_ids == UserIds(interactions)
        total_overlap == Cardinality(follower_ids \cap following_ids)
                         + Cardinality(follower_ids \cap interaction_ids)
                         + Cardinality(following_ids \cap interaction_ids)
        total_size == Cardinality(follower_ids) + Cardinality(following_ids)
                      + Cardinality(interaction_ids)
    IN  IF total_size = 0 THEN Half
        ELSE Rat(total_overlap, total_size)

EstimateClustering(followers, following, interactions) ==
    LET follower_ids == UserIds(followers)
        following_ids == UserIds(following)
        interaction_ids == UserIds(interactions)
        total_overlap == Cardinality(follower_ids \cap following_ids)
                         + Cardinality(follower_ids \cap interaction_ids)
                         + Cardinality(following_ids \cap interaction_ids)
        total_size == Cardinality(follower_ids) + Cardinality(following_ids)
                      + Cardinality(interaction_ids)
    IN  IF total_size = 0 THEN Half
        ELSE RAdd(Rat(5, 100), RMul(Rat(total_overlap, total_size), Rat(75, 100)))

CalculateReciprocity(followers, following) ==
    LET follower_ids == UserIds(followers)
        following_ids == UserIds(following)
    IN  IF following_ids = {} THEN Half
        ELSE Rat(Cardinality(follower_ids \cap following_ids),
                 Cardinality(following_ids))

CalculateNetworkScore(followers_ratio, isolation_score, mutual_ratio, clustering, reciprocity, followers_count, following_count) ==
    LET low_followers ==
            IF followers_count < 10 THEN Rat(3, 10)
            ELSE IF followers_count < 50 THEN Rat(2, 10)
            ELSE Zero
        following_to_follower == Rat(followers_count, following_count)
        imbalance ==
            IF following_count > 0
            THEN IF RLt(following_to_follower, Rat(1, 10)) THEN Rat(25, 100)
                 ELSE IF RLt(following_to_follower, Rat(3, 10)) THEN Rat(15, 100)
                 ELSE Zero
            ELSE Zero
        suspicion ==
            RAdd(RAdd(RAdd(low_followers, imbalance),
                      RAdd(RMul(isolation_score, Rat(2, 10)),
                           RMul(RSub(One, mutual_ratio), Rat(15, 100)))),
                 RAdd(RMul(RSub(One, clustering), Rat(1, 10)),
                      RMul(RSub(One, reciprocity), Rat(1, 10))))
    IN  RMin(One, suspicion)

NetworkAnalyze(profile) ==
    LET followers_count == Get(profile, "followers_count", 0)
        following_count == Get(profile, "following_count", 0)
        followers == Get(profile, "followers", <<>>)
        following == Get(profile, "following", <<>>)
        interactions == Get(profile, "interactions", <<>>)
        followers_to_following_ratio == CalculateRatio(followers_count, following_count)
        network_isolation_score ==
            IF followers # <<>> \/ following # <<>> \/ interactions # <<>>
            THEN CalculateNetworkIsolation(followers, following, interactions,
                                           followers_count, following_count)
            ELSE EstimateIsolationFromCounts(followers_count, following_count)
        both == followers # <<>> /\ following # <<>>
        mutual_connection_ratio ==
            IF both THEN AnalyzeMutualConnections(followers, following) ELSE Half
        clustering_coefficient ==
            IF both THEN EstimateClustering(followers, following, interactions) ELSE Half
        reciprocity ==
            IF both THEN CalculateReciprocity(followers, following) ELSE Half
    IN  Returned([network_analysis_performed |-> TRUE,
                  followers_count |-> RInt(followers_count),
                  following_count |-> RInt(following_count),
                  followers_to_following_ratio |-> followers_to_following_ratio,
                  network_isolation_score |-> network_isolation_score,
                  mutual_connection_ratio |-> mutual_connection_ratio,
                  clustering_coefficient |-> clustering_coefficient,
                  reciprocity |-> reciprocity,
                  network_score |->
                      CalculateNetworkScore(followers_to_following_ratio,
                          network_isolation_score, mutual_connection_ratio,
                          clustering_coefficient, reciprocity,
                          followers_count, following_count)])

----------------------------------------------------------------------------
(* The classifier capability (scikit-learn, outside the repository).

   A classifier is [name, young, old, importances]: predict_proba is a fixed
   function of the classifier's state and the feature vector; the model
   distinguishes vectors by account_age_days < 180 only (the split of the
   fallback model's training data).  importances is whether the object has a
   feature_importances_ attribute.                                          *)

NoClassifier == [name |-> "None", young |-> Zero, old |-> Zero, importances |-> FALSE]

\* create_fallback_model(): a RandomForestClassifier fit on synthetic data
FallbackModel ==
    [name |-> "fallback", young |-> Rat(19, 20), old |-> Rat(1, 20),
     importances |-> TRUE]

\* the classifiers a file at model_path may hold
StoredModels ==
    { [name |-> "stored_a", young |-> Rat(7, 10), old |-> Rat(7, 10),
       importances |-> FALSE],
      [name |-> "stored_b", young |-> Rat(71, 100), old |-> Rat(69, 100),
       importances |-> TRUE] }

\* a file that joblib.load cannot read
CorruptFile == [name |-> "corrupt", young |-> Zero, old |-> Zero, importances |-> FALSE]

FeatureNames ==
    <<"account_age_days", "posts_per_day", "followers_count", "following_count",
      "followers_to_following_ratio", "profile_pic_score", "bio_length",
      "has_external_url", "sentiment_score", "content_diversity", "engagement_rate",
      "posting_regularity", "suspicious_content_score", "network_isolation_score">>

PrepareFeatureVector(features) ==
    [i \in 1..Len(FeatureNames) |-> Get(features, FeatureNames[i], Zero)]

\* self.model.predict_proba([feature_vector])[0][1]
PredictProba(clf, feature_vector) ==
    IF RLt(feature_vector[1], RInt(180)) THEN clf.young ELSE clf.old

GetFeatureImportance(clf, feature_vector) ==
    IF clf.name = "None" THEN EmptyMap
    ELSE IF clf.importances
      THEN [k \in {FeatureNames[i] : i \in 1..Len(FeatureNames)} |->
              IF k = "account_age_days" THEN One ELSE Zero]
    ELSE [k \in {FeatureNames[i] : i \in 1..Len(FeatureNames)} |->
              Rat(1, Len(FeatureNames))]

----------------------------------------------------------------------------
(* FakeProfileDetector.analyze_profile  (detector.py 59-131) *)

\* lines 96-122: the decision on the merged feature map, and the result
Decide(clf, combined_features, profile, clock) ==
    LET feature_vector == PrepareFeatureVector(combined_features)
        heuristic == HeuristicDetection(combined_features)
        probability == IF clf.name # "None" THEN PredictProba(clf, feature_vector)
                       ELSE heuristic.probability
        is_fake == IF clf.name # "None" THEN IsFakeAt(probability)
                   ELSE heuristic.is_fake
        feature_importance ==
            IF clf.name # "None" THEN GetFeatureImportance(clf, feature_vector)
            ELSE heuristic.importance
        indicators == IdentifySuspiciousIndicators(combined_features, feature_importance)
    IN  [is_fake |-> is_fake,
         probability |-> probability,
         indicators |-> indicators,
         feature_importance |-> feature_importance,
         recommendations |-> GenerateRecommendations(is_fake, probability, indicators),
         profile_data |-> profile,
         timestamp |-> clock]

\* lines 87-93
CombineFeatures(features, content_analysis, activity_analysis, image_analysis, network_analysis) ==
    Merge(Merge(Merge(Merge(features, content_analysis), activity_analysis),
                image_analysis),
          network_analysis)

\* the whole call from generator state r: [out, rng, combined]; an exception of
\* any step leaves the method (lines 129-131 log it and raise it again)
AnalyzeProfileCall(clf, profile, clock, r) ==
    LET features == ExtractFeatures(profile, clock)
        content_analysis == ContentAnalyze(profile)
        activity_analysis == ActivityAnalyze(profile, clock)
        image == ImageAnalyze(profile, r)
        network_analysis == NetworkAnalyze(profile)
        combined_features ==
            CombineFeatures(features.value, content_analysis.value,
                            activity_analysis.value, image.out.value,
                            network_analysis.value)
    IN  IF features.raised
          THEN [out |-> features, rng |-> r, combined |-> EmptyMap]
        ELSE IF content_analysis.raised
          THEN [out |-> content_analysis, rng |-> r, combined |-> EmptyMap]
        ELSE IF activity_analysis.raised
          THEN [out |-> activity_analysis, rng |-> r, combined |-> EmptyMap]
        ELSE IF network_analysis.raised
          THEN [out |-> network_analysis, rng |-> image.rng, combined |-> EmptyMap]
        ELSE [out |-> Returned(Decide(clf, combined_features, profile, clock)),
              rng |-> image.rng,
              combined |-> combined_features]

----------------------------------------------------------------------------
(* load_model  (models/model_loader.py 11-55) and
   FakeProfileDetector.__init__  (detector.py 31-57) *)

\* load_model(model_path) with `file` stored at the path; makedirs is the
\* outcome of os.makedirs ("ok" or the exception), dump the outcome of
\* joblib.dump ("ok", "fail": nothing written, "partial": an unreadable file
\* is left): [out, file]
LoadModel(file, makedirs, dump) ==
    IF file.name = "None"
    THEN IF makedirs # "ok"
           THEN [out |-> Raised(makedirs), file |-> file]
         ELSE IF dump = "ok"
           THEN [out |-> Returned(FallbackModel), file |-> FallbackModel]
         ELSE [out |-> Raised("FileNotFoundError"),
               file |-> IF dump = "partial" THEN CorruptFile ELSE file]
    ELSE IF file.name = "corrupt"
      THEN [out |-> Raised("UnpicklingError"), file |-> file]
    ELSE [out |-> Returned(file), file |-> file]

NotConstructed == [state |-> "none", clf |-> NoClassifier, found |-> FALSE]

\* the detector __init__ leaves, and the file: state is "constructed", or
\* "failed" when an exception leaves __init__; found records whether load_model
\* saw a file at model_path
DetectorInit(file, makedirs, dump) ==
    LET loaded == LoadModel(file, makedirs, dump)
        found == file.name # "None"
    IN  [model |->
            IF ~loaded.out.raised
              THEN [state |-> "constructed", clf |-> loaded.out.value, found |-> found]
            ELSE IF loaded.out.exc = "FileNotFoundError"
              THEN [state |-> "constructed", clf |-> NoClassifier, found |-> found]
            ELSE [state |-> "failed", clf |-> NoClassifier, found |-> found],
         file |-> loaded.file]

----------------------------------------------------------------------------
(* Inputs *)

\* the clock ticks at most MaxTicks times
MaxTicks == 2

\* the day the clock starts in
StartDay == 400

StartClock == StartDay * TicksPerDay

Date(fmt, day) == [fmt |-> fmt, day |-> day]

Text(pieces) == [kind |-> "str", pieces |-> pieces]

Stamp(kind, t) == [kind |-> kind, t |-> t]

Url(default, seed) == [kind |-> "str", default |-> default, seed |-> seed,
                       hash |-> "0123456789abcdef0123"]

\* a post with a parsable timestamp, t minutes after midnight
StampedPost(t) ==
    [text |-> Text(<<"hello">>), timestamp |-> Stamp("%Y-%m-%dT%H:%M:%S", t),
     likes |-> 3]

\* the profiles handed to the detector
Profiles ==
    LET
        DateChoices ==
            { EmptyMap,
              "creation_date" :> Date("not-a-date", 0),
              "creation_date" :> Date("%Y-%m-%d", StartDay - 29) }
        CountChoices ==
            { EmptyMap,
              [followers_count |-> 5, following_count |-> 2000],
              [followers_count |-> 120, following_count |-> 100, bio |-> 20,
               followers |-> <<User("ann"), User("bob")>>,
               following |-> <<User("bob"), User("cy")>>] }
        PostChoices ==
            { EmptyMap,
              "posts" :> << [text |-> [kind |-> "None", pieces |-> <<>>]] >>,
              "posts" :> << StampedPost(0), StampedPost(2), StampedPost(5), StampedPost(40) >>,
              "posts" :> << [text |-> Text(<<"FREE", "money">>), likes |-> 0],
                            [text |-> Text(<<"free", "money">>), likes |-> 1] >>,
              "posts" :> << [text |-> Text(<<"Good", "work", "!!!">>), likes |-> 30,
                             comments |-> 4, timestamp |-> Stamp("garbled", 0)] >> }
        PicChoices ==
            { EmptyMap,
              "profile_pic_url" :> Url(FALSE, 0),
              "profile_pic_url" :> Url(FALSE, 3) }
    IN  { Merge(Merge(d, c), Merge(p, u)) :
            d \in DateChoices, c \in CountChoices, p \in PostChoices, u \in PicChoices }

----------------------------------------------------------------------------
(* The detector's life: construction, analyses, the passing of time *)

NoOutcome == [raised |-> FALSE, exc |-> "no call", value |-> EmptyMap]

NoBatch == [file |-> <<>>, csv |-> FALSE, platform |-> "", readable |-> FALSE]

\* no call of _detect_posting_bursts
NoScan == [pc |-> "", timestamps |-> <<>>]

Idle ==
    /\ batchIn = NoBatch
    /\ batch = NoOutcome
    /\ hin = EmptyMap
    /\ hout = EmptyMap
    /\ comp = [op |-> "", out |-> NoOutcome]
    /\ threads = <<>>
    /\ scan = NoScan

Init ==
    /\ modelFile \in {NoClassifier, CorruptFile} \cup StoredModels
    /\ model = NotConstructed
    /\ now = StartClock
    /\ rng \in 0..(RngStates - 1)
    /\ profile_data \in Profiles
    /\ result = NoOutcome
    /\ prev = NoOutcome
    /\ combined = EmptyMap
    /\ Idle

\* what os.makedirs and joblib.dump may do when load_model calls them (it
\* calls them only when there is no file, and dump only after makedirs)
IoOutcomes(file) ==
    IF file.name # "None" THEN {<<"ok", "ok">>}
    ELSE {<<"ok", "ok">>, <<"ok", "fail">>, <<"ok", "partial">>,
          <<"FileNotFoundError", "ok">>, <<"PermissionError", "ok">>}

\* detector = FakeProfileDetector(model_path)
Construct ==
    \E io \in IoOutcomes(modelFile) :
        LET d == DetectorInit(modelFile, io[1], io[2])
        IN  /\ model' = d.model
            /\ modelFile' = d.file
            /\ result' = NoOutcome
            /\ prev' = NoOutcome
            /\ combined' = EmptyMap
            /\ UNCHANGED <<now, rng, profile_data, batchIn, batch, hin, hout, comp, threads, scan>>

\* detector.analyze_profile(profile_data)
AnalyzeProfile ==
    /\ model.state = "constructed"
    /\ LET Finish(call) ==
               /\ result' = call.out
               /\ prev' = result
               /\ rng' = call.rng
               /\ combined' = call.combined
       IN  Finish(AnalyzeProfileCall(model.clf, profile_data, now, rng))
    /\ UNCHANGED <<modelFile, model, now, profile_data, batchIn, batch, hin, hout, comp, threads, scan>>

Tick ==
    /\ now < StartClock + MaxTicks
    /\ now' = now + 1
    /\ UNCHANGED <<modelFile, model, rng, profile_data, result, prev, combined,
                   batchIn, batch, hin, hout, comp, threads, scan>>

Next == Construct \/ AnalyzeProfile \/ Tick

Spec == Init /\ [][Next]_vars

----------------------------------------------------------------------------
(* Properties of the detector's life  (Spec) *)

\* the call was made and returned a result
Returns(outcome) == ~outcome.raised /\ outcome.exc = ""

\* the call was made
Called(outcome) == outcome.exc # "no call"

\* C1: whenever analyze_profile returns a result, by the classifier path or by
\* the heuristic path, is_fake is true exactly when probability >= 0.7.
C1_IsFakeIffThreshold ==
    Returns(result) =>
        (result.value.is_fake <=> RLe(Rat(7, 10), result.value.probability))

\* a classifier-path result whose probability is exactly 0.7, reported fake
C1_Witness ==
    /\ Returns(result)
    /\ model.clf.name # "None"
    /\ result.value.probability = Rat(7, 10)
    /\ result.value.is_fake

\* every post is a dict with a text and a timestamp that parses
TimestampedPosts(p) ==
    /\ Has(p, "posts")
    /\ p["posts"] # <<>>
    /\ \A i \in 1..Len(p["posts"]) :
          /\ Has(p["posts"][i], "text")
          /\ p["posts"][i]["text"].kind = "str"
          /\ ParseTimestamp(p["posts"][i]) # <<>>

\* C2: analyze_profile returns a result (it does not raise) for every profile
\* whose posts are well-formed dicts carrying parsable timestamps.
C2_ReturnsOnTimestampedPosts ==
    (Called(result) /\ TimestampedPosts(profile_data)) => Returns(result)

\* some post has text None and no post has a timestamp
NoneTextPost(p) ==
    /\ Has(p, "posts")
    /\ \E i \in 1..Len(p["posts"]) :
          /\ Has(p["posts"][i], "text")
          /\ p["posts"][i]["text"].kind = "None"
    /\ PostTimestamps(p["posts"]) = <<>>

\* C5: when a post has text None, the content analyzer returns its neutral
\* defaults with content_analysis_performed false and analyze_profile still
\* returns a result.
C5_AnalyzerFailureRecovered ==
    (Called(result) /\ NoneTextPost(profile_data)) =>
        /\ Returns(result)
        /\ Has(combined, "content_analysis_performed")
        /\ combined["content_analysis_performed"] = FALSE

\* C6: the merged feature map of every analysis that reaches the merge has a
\* value for each of the 14 canonical keys.
C6_CanonicalKeysPresent ==
    Returns(result) =>
        \A i \in 1..Len(FeatureNames) : Has(combined, FeatureNames[i])

\* the account ages the feature extractor and the activity analyzer derive
\* from the clock
AgesAt(p, clock) == <<AccountAgeFeature(p, clock), ActivityAccountAge(p, clock)>>

ButTimestamp(value) == [value EXCEPT !.timestamp = 0]

\* C8 (as stated): two analyses of the same profile by the same detector return
\* results equal in every field.
C8_Identical ==
    (Returns(prev) /\ Returns(result)) => result.value = prev.value

\* C8 (amended): two analyses of the same profile by the same detector either
\* raise the same exception or return; two returned results are equal in every
\* field but timestamp when the clock gives the same account age in whole days
\* at both calls.
C8_IdenticalButTimestamp ==
    (Called(prev) /\ Called(result)) =>
        /\ prev.raised = result.raised
        /\ prev.exc = result.exc
        /\ (/\ Returns(prev)
            /\ AgesAt(profile_data, prev.value.timestamp)
                 = AgesAt(profile_data, result.value.timestamp))
           => ButTimestamp(result.value) = ButTimestamp(prev.value)

\* two returned analyses at different clock readings of the same day, of a
\* profile with a parsable creation date and a picture that is analysed
C8_Witness ==
    /\ Returns(prev)
    /\ Returns(result)
    /\ prev.value.timestamp # result.value.timestamp
    /\ AgesAt(profile_data, prev.value.timestamp)
         = AgesAt(profile_data, result.value.timestamp)
    /\ Has(profile_data, "creation_date")
    /\ profile_data["creation_date"].fmt = "%Y-%m-%d"
    /\ Has(profile_data, "profile_pic_url")
    /\ ~profile_data["profile_pic_url"].default

\* C9: a detector constructed when there is no file at model_path is
\* constructed without a classifier, and each result it returns comes from the
\* heuristic path (its importances are those of the nine red flags).
C9_NoFileNoClassifier ==
    (model.state # "none" /\ ~model.found) =>
        /\ model.state = "constructed"
        /\ model.clf = NoClassifier
        /\ Returns(result) => DOMAIN result.value.feature_importance = FlagSet

----------------------------------------------------------------------------
(* The heuristic decision on its own  (SpecHeur) *)

\* the feature each flag reads, the threshold it compares with, and a step
\* by which the sample values lie off the threshold
FlagFeature ==
    [f \in FlagSet |->
       CASE f = "new_account" -> "account_age_days"
         [] f = "high_following_ratio" -> "followers_to_following_ratio"
         [] f = "excessive_posting" -> "posts_per_day"
         [] f = "suspicious_profile_pic" -> "profile_pic_score"
         [] f = "low_engagement" -> "engagement_rate"
         [] f = "suspicious_content" -> "suspicious_content_score"
         [] f = "isolated_network" -> "network_isolation_score"
         [] f = "duplicate_content" -> "content_diversity"
         [] f = "no_bio" -> "bio_length"]

FlagThreshold ==
    [f \in FlagSet |->
       CASE f = "new_account" -> RInt(30)
         [] f = "high_following_ratio" -> Rat(1, 10)
         [] f = "excessive_posting" -> RInt(20)
         [] f = "suspicious_profile_pic" -> Rat(7, 10)
         [] f = "low_engagement" -> Rat(1, 100)
         [] f = "suspicious_content" -> Rat(7, 10)
         [] f = "isolated_network" -> Rat(7, 10)
         [] f = "duplicate_content" -> Rat(3, 10)
         [] f = "no_bio" -> RInt(5)]

InitHeur ==
    LET
        \* feature maps with the features of any set of flags at one level and the
        \* others at another
        HeurInputs ==
            LET
                FlagStep ==
                    [f \in FlagSet |->
                       IF f \in {"new_account", "excessive_posting", "no_bio"} THEN RInt(1)
                       ELSE Rat(1, 1000)]
                \* the feature map in which the feature of flag f is absent when c[f] = 0 and
                \* has the value of level c[f] otherwise (1: below the threshold, 2: at it,
                \* 3: above it)
                FeatureMapOf(c) ==
                    [k \in {FlagFeature[f] : f \in {g \in FlagSet : c[g] # 0}} |->
                       LET f == CHOOSE g \in FlagSet : FlagFeature[g] = k
                       IN  RAdd(FlagThreshold[f], RMul(RInt(c[f] - 2), FlagStep[f]))]
            IN  { FeatureMapOf([f \in FlagSet |-> IF f \in S THEN a ELSE b]) :
                    S \in SUBSET FlagSet, a \in 0..3, b \in 0..3 }
    IN  /\ modelFile = NoClassifier
        /\ model = NotConstructed
        /\ now = StartClock
        /\ rng = 0
        /\ profile_data = EmptyMap
        /\ result = NoOutcome
        /\ prev = NoOutcome
        /\ combined = EmptyMap
        /\ batchIn = NoBatch
        /\ batch = NoOutcome
        /\ hin \in HeurInputs
        /\ hout = EmptyMap
        /\ comp = [op |-> "", out |-> NoOutcome]
        /\ threads = <<>>
        /\ scan = NoScan

\* probability, is_fake, importance = self._heuristic_detection(hin)
HeuristicCall ==
    /\ hout' = HeuristicDetection(hin)
    /\ UNCHANGED <<modelFile, model, now, rng, profile_data, result, prev, combined,
                   batchIn, batch, hin, comp, threads, scan>>

\* indicators = self._identify_suspicious_indicators(hin, importance), with the
\* importance the heuristic returned or any other mapping
IndicatorsCall ==
    /\ Has(hout, "importance")
    /\ ~Has(hout, "indicators")
    /\ \E importance \in {hout.importance, [f \in FlagSet |-> Zero], EmptyMap} :
           hout' = Merge(hout, [indicators |->
                                   IdentifySuspiciousIndicators(hin, importance),
                                passed |-> importance])
    /\ UNCHANGED <<modelFile, model, now, rng, profile_data, result, prev, combined,
                   batchIn, batch, hin, comp, threads, scan>>

\* recommendations = self._generate_recommendations(is_fake, probability,
\* indicators), with the verdict of the heuristic or any other
RecommendationsCall ==
    /\ Has(hout, "indicators")
    /\ ~Has(hout, "recommendations")
    /\ \E verdict \in {<<hout.is_fake, hout.probability>>, <<FALSE, Rat(95, 100)>>,
                        <<TRUE, Rat(4, 10)>>, <<TRUE, Rat(9, 10)>>,
                        <<FALSE, Rat(4, 10)>>} :
           hout' = Merge(hout, [recommendations |->
                                   GenerateRecommendations(verdict[1], verdict[2],
                                                           hout.indicators),
                                verdict |-> verdict])
    /\ UNCHANGED <<modelFile, model, now, rng, profile_data, result, prev, combined,
                   batchIn, batch, hin, comp, threads, scan>>

NextHeur ==
    \/ HeuristicCall
    \/ IndicatorsCall
    \/ RecommendationsCall

SpecHeur == InitHeur /\ [][NextHeur]_vars

\* the flags the output reports as triggered
Triggered(out) == {f \in FlagSet : out.importance[f] = Rat(1, 10)}

\* C3: with k of the 9 red flags triggered the heuristic probability is
\* min(0.3 + (k/9)*0.7, 1.0); k = 0 gives exactly 0.3 and not fake, k = 9
\* gives exactly 1.0 and fake.
C3_HeuristicProbability ==
    Has(hout, "probability") =>
        LET k == Cardinality(Triggered(hout))
        IN  /\ hout.probability = RMin(Rat(27 + 7 * k, 90), One)
            /\ k = 0 => (hout.probability = Rat(3, 10) /\ ~hout.is_fake)
            /\ k = 9 => (hout.probability = One /\ hout.is_fake)

\* all nine flags triggered
C3_Witness ==
    /\ Has(hout, "probability")
    /\ Cardinality(Triggered(hout)) = 9
    /\ hout.probability = One
    /\ hout.is_fake

\* flag f's condition, as stated: the feature is present and lies strictly on
\* the flag's side of the threshold
Triggers(f, features) ==
    /\ Has(features, FlagFeature[f])
    /\ IF f \in {"excessive_posting", "suspicious_profile_pic", "suspicious_content",
                 "isolated_network"}
       THEN RLt(FlagThreshold[f], features[FlagFeature[f]])
       ELSE RLt(features[FlagFeature[f]], FlagThreshold[f])

\* C4: the heuristic reports exactly the nine flags, and a flag is triggered
\* exactly when its feature is present in the map and lies strictly beyond its
\* threshold (<30, <0.1, >20, >0.7, <0.01, >0.7, >0.7, <0.3, <5): a value at
\* the threshold and an absent key do not trigger.
C4_StrictFlags ==
    Has(hout, "importance") =>
        /\ DOMAIN hout.importance = FlagSet
        /\ \A f \in FlagSet :
              (hout.importance[f] = Rat(1, 10)) <=> Triggers(f, hin)
        /\ \A f \in FlagSet :
              hout.importance[f] \in {Zero, Rat(1, 10)}

\* an account age of exactly 30 days with every other feature below its
\* threshold: new_account is not triggered, the five other "<" flags are
C4_Witness ==
    /\ Has(hout, "importance")
    /\ Has(hin, "account_age_days")
    /\ hin["account_age_days"] = RInt(30)
    /\ hout.importance["new_account"] = Zero
    /\ Triggered(hout) = {"high_following_ratio", "low_engagement",
                          "duplicate_content", "no_bio"}

----------------------------------------------------------------------------
(* The components called directly  (SpecComp) *)

\* the longest post list of the generated inputs
MaxPosts == 3

\* all non-empty sequences over S of length at most n
RECURSIVE SeqsUpTo(_, _)
SeqsUpTo(S, n) ==
    IF n = 0 THEN {}
    ELSE LET shorter == SeqsUpTo(S, n - 1)
         IN  {<<x>> : x \in S} \cup shorter
             \cup {Append(q, x) : q \in shorter, x \in S}

\* the profiles handed to the components: each varies the fields one
\* component reads
CompProfiles ==
    LET
        ContentPosts ==
            LET texts == { Text(<<"FREE", "money">>),
                           Text(<<"Good", "bad", "bad", "#ad", "@bob", "!!!">>),
                           [kind |-> "blank", pieces |-> <<>>] }
            IN  SeqsUpTo({[text |-> t] : t \in texts}, MaxPosts)
        TimedPosts == SeqsUpTo({StampedPost(t) : t \in {0, 5, 700}}, MaxPosts)
        LikedPosts ==
            SeqsUpTo({[text |-> Text(<<"hello">>), likes |-> l, comments |-> 1] :
                        l \in {0, 9, 25, 500}}, 2)
        OtherPosts ==
            { << [likes |-> 2] >>,
              << [text |-> [kind |-> "None", pieces |-> <<>>]] >>,
              << [text |-> Text(<<"hello">>), timestamp |-> Stamp("garbled", 0)],
                 [text |-> Text(<<"hello">>), timestamp |-> Stamp("overflow", 0)],
                 [text |-> Text(<<"hello">>), timestamp |-> Stamp("None", 0)] >>,
              << [text |-> Text(<<"hello">>), timestamp |-> Stamp("unix", 90)],
                 [text |-> Text(<<"hello">>), timestamp |-> Stamp("overflow", 0)],
                 [text |-> Text(<<"hello">>), timestamp |-> Stamp("isoformat", 95)] >>,
              << StampedPost(0), StampedPost(540), StampedPost(1020), StampedPost(5),
                 StampedPost(10) >>,
              << StampedPost(0), StampedPost(0) >> }
            \cup { [i \in 1..Len(ts) |-> StampedPost(ts[i])] :
                     ts \in { <<0, 2, 5, 40>>, <<40, 5, 0, 2>>, <<0, 5, 10>>, <<0, 5, 11>>,
                              <<0, 1, 2, 3, 4, 5>>, <<0, 1, 2, 11, 12, 13>>,
                              <<0, 20, 21, 22>>, <<0, 4, 8, 12, 16>>,
                              <<1320, 1380, 0, 60, 120>>, <<0, 300, 600, 900, 1200>>,
                              <<0, 240, 480, 720, 960, 1200>> } }
        CompDates ==
            { EmptyMap,
              "creation_date" :> Date("%Y/%m/%d", StartDay),
              "creation_date" :> Date("%Y-%m-%dT%H:%M:%S", StartDay + 1) }
        OtherDates ==
            { "creation_date" :> Date("not-a-date", 0),
              "creation_date" :> Date("nonstring", 0),
              "creation_date" :> Date("empty", 0),
              "creation_date" :> Date("%Y-%m-%d", StartDay - 29) }
        CompLists ==
            { <<>>, <<User("ann")>>, <<User("ann"), User("bob")>>,
              <<User("cy"), User("cy")>>,
              <<[kind |-> "int", id |-> "7"]>>,
              <<[kind |-> "dict", id |-> "ann"], [kind |-> "dict", id |-> ""]>> }
        CompNetworks ==
            { Merge([followers |-> a, following |-> b, interactions |-> c], n) :
                a \in CompLists, b \in CompLists, c \in CompLists,
                n \in {[followers_count |-> 5, following_count |-> 2000],
                       [followers_count |-> 120, following_count |-> 100]} }
    IN  {EmptyMap}
        \cup {"posts" :> ps : ps \in ContentPosts \cup LikedPosts \cup OtherPosts}
        \cup {Merge("posts" :> ps, d) : ps \in TimedPosts \cup OtherPosts, d \in CompDates}
        \cup OtherDates
        \cup {Merge("posts" :> <<StampedPost(0)>>, d) : d \in OtherDates}
        \cup {"profile_pic_url" :> u :
                u \in { Url(TRUE, 0), Url(FALSE, 0), Url(FALSE, 1), Url(FALSE, 2),
                        Url(FALSE, 3),
                        [kind |-> "nonstring", default |-> FALSE, seed |-> 0,
                         hash |-> ""] }}
        \cup { [followers_count |-> a, following_count |-> b] :
                 a \in {0, 5, 20, 50, 60, 120}, b \in {0, 100, 400, 600, 2000} }
        \cup CompNetworks
        \cup {[friend_count |-> 7, bio |-> 4, external_url |-> TRUE,
               username |-> [length |-> 8, digits |-> 4, underscores |-> 1, run |-> 3]]}
        \cup {[post_count |-> 730],
              Merge([post_count |-> 60],
                    "creation_date" :> Date("%Y-%m-%d", StartDay - 29))}

InitComp ==
    /\ modelFile \in {NoClassifier, FallbackModel}
    /\ model = DetectorInit(modelFile, "ok", "fail").model
    /\ now = StartClock
    /\ rng = 0
    /\ profile_data \in CompProfiles
    /\ result = NoOutcome
    /\ prev = NoOutcome
    /\ combined = EmptyMap
    /\ Idle

CompUnchanged ==
    UNCHANGED <<modelFile, model, now, profile_data, result, prev, combined,
                batchIn, batch, hin, hout, threads, scan>>

\* self.feature_extractor.extract_features(profile_data)
ExtractFeaturesCall ==
    /\ comp' = [op |-> "extract_features", out |-> ExtractFeatures(profile_data, now)]
    /\ UNCHANGED rng
    /\ CompUnchanged

\* self.content_analyzer.analyze(profile_data)
ContentCall ==
    /\ comp' = [op |-> "content", out |-> ContentAnalyze(profile_data)]
    /\ UNCHANGED rng
    /\ CompUnchanged

\* self.activity_analyzer.analyze(profile_data)
ActivityCall ==
    /\ comp' = [op |-> "activity", out |-> ActivityAnalyze(profile_data, now)]
    /\ UNCHANGED rng
    /\ CompUnchanged

\* self.image_analyzer.analyze(profile_data)
ImageCall ==
    /\ LET image == ImageAnalyze(profile_data, rng)
       IN  /\ comp' = [op |-> "image", out |-> image.out]
           /\ rng' = image.rng
    /\ CompUnchanged

\* self.network_analyzer.analyze(profile_data)
NetworkCall ==
    /\ comp' = [op |-> "network", out |-> NetworkAnalyze(profile_data)]
    /\ UNCHANGED rng
    /\ CompUnchanged

NextComp ==
    \/ ExtractFeaturesCall
    \/ ContentCall
    \/ ActivityCall
    \/ ImageCall
    \/ NetworkCall
    \/ AnalyzeProfile

SpecComp == InitComp /\ [][NextComp]_vars

ScoreFields ==
    {"sentiment_score", "content_diversity", "suspicious_content_score",
     "posting_regularity", "time_zone_consistency", "engagement_rate",
     "activity_score", "profile_pic_score", "network_isolation_score",
     "mutual_connection_ratio", "clustering_coefficient", "reciprocity",
     "network_score"}

ScoresInUnit(m) == \A k \in ScoreFields : Has(m, k) => InUnit(m[k])

\* C7: every score field a component returns, every score field of the merged
\* feature map and the probability of every result lie in [0, 1].
C7_ScoresInUnit ==
    /\ ScoresInUnit(comp.out.value)
    /\ ScoresInUnit(combined)
    /\ Returns(result) => InUnit(result.value.probability)

\* the network analyzer has returned a network_score at the upper end of the
\* range and an analysis of the same profile has returned its probability
C7_Witness ==
    /\ comp.op = "network"
    /\ Returns(comp.out)
    /\ comp.out.value["network_score"] = One
    /\ Returns(result)
    /\ Has(combined, "activity_score")
    /\ RLt(Zero, result.value.probability)

----------------------------------------------------------------------------
(* batch_analyze  (detector.py 133-190) and process_profile_url
   (utils/data_processor.py 15-66)

   An identifier of the input file is [name, kind, seed]: kind "invalid" when no
   username can be extracted from it, "quiet" when the profile generated for
   it has no posts, "posting" when it has; seed is hash(username) as the
   generator's seed.                                                         *)

\* the longest input file
MaxBatch == 3

\* platform.lower().strip()
NormalizePlatform(platform) ==
    IF platform = " Instagram" THEN "instagram" ELSE platform

\* get_<platform>_profile_data(username): the simulated profile
GeneratedProfile(id, clock) ==
    [username |-> [length |-> 5, digits |-> 0, underscores |-> 0, run |-> 0],
     original_input |-> id,
     bio |-> 20,
     creation_date |-> Date("%Y-%m-%d", (clock \div TicksPerDay) - 200),
     followers_count |-> 40,
     following_count |-> 900,
     post_count |-> IF id.kind = "posting" THEN 1 ELSE 0,
     profile_pic_url |-> Url(FALSE, id.seed),
     has_external_url |-> TRUE,
     posts |-> IF id.kind = "posting"
               THEN << [text |-> Text(<<"FREE", "money">>),
                        timestamp |-> Stamp("isoformat", 30),
                        likes |-> 2, comments |-> 1] >>
               ELSE <<>>]

\* process_profile_url(profile, platform) from generator state r: [out, rng]
ProcessProfileUrl(id, platform, clock, r) ==
    IF id.kind = "invalid"
      THEN [out |-> Raised("ValueError"), rng |-> r]
    ELSE IF NormalizePlatform(platform) \notin {"twitter", "x", "instagram", "facebook"}
      THEN [out |-> Raised("ValueError"), rng |-> r]
    ELSE [out |-> Returned(GeneratedProfile(id, clock)),
          rng |-> RandomNext(RandomSeed(id.seed))]

\* the entry appended when processing a profile raises (lines 170-177)
ErrorEntry(e, id, platform, clock) ==
    [error |-> e, profile |-> id, platform |-> platform, timestamp |-> clock]

\* the profiles read from the file (lines 151-159): the first row of a CSV
\* file is taken for a header
ReadProfiles(input) ==
    IF input.csv /\ input.file # <<>> THEN Tail(input.file) ELSE input.file

\* one pass of the loop body (lines 164-177) from generator state r: [entry, rng]
BatchStep(clf, id, platform, clock, r) ==
    LET fetched == ProcessProfileUrl(id, platform, clock, r)
        \* result = self.analyze_profile(profile_data)
        Analyzed(call) ==
            IF call.out.raised
              THEN [entry |-> ErrorEntry(call.out.exc, id, platform, clock),
                    raised |-> TRUE, rng |-> call.rng]
            ELSE [entry |-> call.out.value, raised |-> FALSE, rng |-> call.rng]
    IN  IF fetched.out.raised
          THEN [entry |-> ErrorEntry(fetched.out.exc, id, platform, clock),
                raised |-> TRUE, rng |-> r]
        ELSE Analyzed(AnalyzeProfileCall(clf, fetched.out.value, clock,
                                         fetched.rng))

\* the loop with the first exception ending it
RECURSIVE BatchLoopAbort(_, _, _, _, _, _)
BatchLoopAbort(clf, profiles, platform, clock, r, results) ==
    IF profiles = <<>> THEN [results |-> results, rng |-> r]
    ELSE LET step == BatchStep(clf, Head(profiles), platform, clock, r)
         IN  IF step.raised
             THEN [results |-> Append(results, step.entry), rng |-> step.rng]
             ELSE BatchLoopAbort(clf, Tail(profiles), platform, clock, step.rng,
                                 Append(results, step.entry))

\* the loop `for profile in profiles` (lines 163-177): [results, rng]
RECURSIVE BatchLoop(_, _, _, _, _, _)
BatchLoop(clf, profiles, platform, clock, r, results) ==
    IF profiles = <<>> THEN [results |-> results, rng |-> r]
    ELSE LET Continue(step) ==
                 BatchLoop(clf, Tail(profiles), platform, clock, step.rng,
                           Append(results, step.entry))
         IN  Continue(BatchStep(clf, Head(profiles), platform, clock, r))

\* batch_analyze(file_path, platform); makedirs is the outcome of
\* os.makedirs('results'): [out, rng]
BatchAnalyzeCall(clf, input, clock, r, makedirs) ==
    LET \* os.makedirs('results') and the save after the loop
        Save(loop) ==
            IF makedirs # "ok"
              THEN [out |-> Raised(makedirs), rng |-> loop.rng]
            ELSE [out |-> [raised |-> FALSE, exc |-> "", value |-> loop.results],
                  rng |-> loop.rng]
    IN  IF ~input.readable
          THEN [out |-> Raised("FileNotFoundError"), rng |-> r]
        ELSE Save(BatchLoop(clf, ReadProfiles(input), input.platform, clock, r,
                            <<>>))

InitBatch ==
    LET
        BatchInputs ==
            LET ids == { [name |-> "alice", kind |-> "quiet", seed |-> 1],
                         [name |-> "bob_99", kind |-> "posting", seed |-> 2],
                         [name |-> "???", kind |-> "invalid", seed |-> 0] }
            IN  { [file |-> f, csv |-> c, platform |-> p, readable |-> r] :
                    f \in {<<>>} \cup SeqsUpTo(ids, MaxBatch), c \in BOOLEAN,
                    p \in {"twitter", " Instagram", "myspace"}, r \in BOOLEAN }
    IN  /\ modelFile \in {NoClassifier} \cup StoredModels
        /\ model = DetectorInit(modelFile, "ok", "fail").model
        /\ now = StartClock
        /\ rng = 0
        /\ profile_data = EmptyMap
        /\ result = NoOutcome
        /\ prev = NoOutcome
        /\ combined = EmptyMap
        /\ batchIn \in BatchInputs
        /\ batch = NoOutcome
        /\ hin = EmptyMap
        /\ hout = EmptyMap
        /\ comp = [op |-> "", out |-> NoOutcome]
        /\ threads = <<>>
        /\ scan = NoScan

\* detector.batch_analyze(file_path, platform)
BatchAnalyze ==
    /\ model.state = "constructed"
    /\ \E makedirs \in {"ok", "PermissionError"} :
          LET Finish(call) ==
                  /\ batch' = call.out
                  /\ rng' = call.rng
          IN  Finish(BatchAnalyzeCall(model.clf, batchIn, now, rng, makedirs))
    /\ UNCHANGED <<modelFile, model, now, profile_data, result, prev, combined,
                   batchIn, hin, hout, comp, threads, scan>>

NextBatch == BatchAnalyze

SpecBatch == InitBatch /\ [][NextBatch]_vars

\* the identifier an entry of the returned list belongs to
EntryProfile(entry) ==
    IF Has(entry, "error") THEN entry["profile"]
    ELSE entry["profile_data"]["original_input"]

\* C10: the list batch_analyze returns has exactly one entry, a result or an
\* error entry, for each profile identifier read from the file, in the order
\* read; an error for one profile does not end the processing of the rest.
C10_OneEntryPerProfile ==
    Returns(batch) =>
        LET read == ReadProfiles(batchIn)
        IN  /\ Len(batch.value) = Len(read)
            /\ \A i \in 1..Len(read) : EntryProfile(batch.value[i]) = read[i]

\* a returned list whose first entry is an error and whose later entries
\* include a result
C10_Witness ==
    /\ Returns(batch)
    /\ Len(batch.value) = 3
    /\ Has(batch.value[1], "error")
    /\ ~Has(batch.value[2], "error")
    /\ Has(batch.value[3], "error")

----------------------------------------------------------------------------
(* Threads sharing one detector, each analyzing its own profile.

   Of everything analyze_profile runs, only ImageAnalyzer._analyze_image
   touches state that outlives the call: _simulate_ai_detection and
   _simulate_quality_score each call random.seed(seed) and then
   random.random() on the generator of the random module
   (image_analyzer.py 256, 259, 271, 274), which all threads share.  A
   thread can be preempted between any two of these calls; each call itself
   is one step.

   threads[t] is [profile, pc, ai, quality, out]: the profile the thread
   analyzes, its position in ImageAnalyzer.analyze, the values its two
   simulations returned, and the outcome of analyze.                        *)

\* the number of threads
MaxThreads == 2

\* profile_data.get('profile_pic_url') of thread t
ThreadUrl(t) ==
    Get(threads[t].profile, "profile_pic_url",
        [kind |-> "None", default |-> FALSE, seed |-> 0, hash |-> ""])

InitThreads ==
    /\ modelFile = NoClassifier
    /\ model = DetectorInit(modelFile, "ok", "fail").model
    /\ now = StartClock
    /\ rng \in 0..(RngStates - 1)
    /\ profile_data = EmptyMap
    /\ result = NoOutcome
    /\ prev = NoOutcome
    /\ combined = EmptyMap
    /\ batchIn = NoBatch
    /\ batch = NoOutcome
    /\ hin = EmptyMap
    /\ hout = EmptyMap
    /\ comp = [op |-> "", out |-> NoOutcome]
    /\ scan = NoScan
    /\ \E ps \in [1..MaxThreads ->
                    {EmptyMap}
                    \cup {"profile_pic_url" :> u :
                            u \in {Url(TRUE, 0), Url(FALSE, 0), Url(FALSE, 1),
                                    Url(FALSE, 2)}}] :
          \* distinct profiles
          /\ \A s, t \in 1..MaxThreads : s # t => ps[s] # ps[t]
          /\ threads = [t \in 1..MaxThreads |->
                          [profile |-> ps[t], pc |-> "analyze", ai |-> FALSE,
                           quality |-> Half, out |-> NoOutcome]]

\* analyze for a missing or default picture: returns without _analyze_image
\* (image_analyzer.py 53-61, 71-75)
ThreadNoImage(t) ==
    /\ threads[t].pc = "analyze"
    /\ ~UsesGenerator(ThreadUrl(t))
    /\ threads' = [threads EXCEPT ![t].pc = "done",
                                  ![t].out = ImageResult(ThreadUrl(t), FALSE, Half)]
    /\ UNCHANGED rng
    /\ UNCHANGED <<modelFile, model, now, profile_data, result, prev, combined,
                   batchIn, batch, hin, hout, comp, scan>>

\* _simulate_ai_detection: random.seed(seed)  (line 256)
ThreadSeedAi(t) ==
    /\ threads[t].pc = "analyze"
    /\ UsesGenerator(ThreadUrl(t))
    /\ rng' = RandomSeed(ThreadUrl(t).seed)
    /\ threads' = [threads EXCEPT ![t].pc = "ai_seeded"]
    /\ UNCHANGED <<modelFile, model, now, profile_data, result, prev, combined,
                   batchIn, batch, hin, hout, comp, scan>>

\* _simulate_ai_detection: return random.random() < 0.15  (line 259)
ThreadDrawAi(t) ==
    /\ threads[t].pc = "ai_seeded"
    /\ rng' = RandomNext(rng)
    /\ threads' = [threads EXCEPT ![t].pc = "ai_drawn",
                                  ![t].ai = RLt(RandomValue(rng), Rat(15, 100))]
    /\ UNCHANGED <<modelFile, model, now, profile_data, result, prev, combined,
                   batchIn, batch, hin, hout, comp, scan>>

\* _simulate_quality_score: random.seed(seed)  (line 271)
ThreadSeedQuality(t) ==
    /\ threads[t].pc = "ai_drawn"
    /\ rng' = RandomSeed(ThreadUrl(t).seed)
    /\ threads' = [threads EXCEPT ![t].pc = "quality_seeded"]
    /\ UNCHANGED <<modelFile, model, now, profile_data, result, prev, combined,
                   batchIn, batch, hin, hout, comp, scan>>

\* _simulate_quality_score: return 0.3 + (random.random() * 0.7)  (line 274),
\* and the rest of analyze, which touches nothing shared
ThreadDrawQuality(t) ==
    /\ threads[t].pc = "quality_seeded"
    /\ rng' = RandomNext(rng)
    /\ LET quality == RAdd(Rat(3, 10), RMul(RandomValue(rng), Rat(7, 10)))
       IN  threads' = [threads EXCEPT
                         ![t].pc = "done",
                         ![t].quality = quality,
                         ![t].out = ImageResult(ThreadUrl(t), threads[t].ai, quality)]
    /\ UNCHANGED <<modelFile, model, now, profile_data, result, prev, combined,
                   batchIn, batch, hin, hout, comp, scan>>

\* one step of one thread
NextThreads ==
    \E t \in 1..MaxThreads :
        \/ ThreadNoImage(t)
        \/ ThreadSeedAi(t)
        \/ ThreadDrawAi(t)
        \/ ThreadSeedQuality(t)
        \/ ThreadDrawQuality(t)

SpecThreads == InitThreads /\ [][NextThreads]_vars

\* C11: whatever the interleaving, each thread's image analysis returns what
\* the same analysis returns when run on its own, one call after another
\* (from any state the generator may then be in).
C11_ConcurrentMatchesSequential ==
    \A t \in 1..MaxThreads :
        threads[t].pc = "done" =>
            \A r \in 0..(RngStates - 1) :
                threads[t].out = ImageAnalyze(threads[t].profile, r).out

----------------------------------------------------------------------------
(* Properties of the merged feature map  (SpecComp) *)

\* C12: for a profile with friend_count and no followers_count, the merged
\* feature map the decision uses has followers_count equal to friend_count
\* and followers_to_following_ratio computed from friend_count.
C12_FriendCountFeedsDecision ==
    (Returns(result) /\ Has(profile_data, "friend_count")
                     /\ ~Has(profile_data, "followers_count")) =>
        /\ combined["followers_count"] = RInt(profile_data["friend_count"])
        /\ combined["followers_to_following_ratio"] =
               CalculateRatio(profile_data["friend_count"],
                              Get(profile_data, "following_count", 0))

\* C13: the features FeatureExtractor returns have account_age_days = 365 when
\* creation_date is missing or in none of the three formats, and the whole
\* days since the parsed date otherwise; with no creation_date and no posts
\* the merged account_age_days is 365.
C13_AccountAgeDefault ==
    /\ (comp.op = "extract_features" /\ Returns(comp.out)) =>
          LET d == Get(profile_data, "creation_date", NoneVal)
              parsed == \E i \in 1..Len(DateFormats) : d.fmt = DateFormats[i]
          IN  /\ Has(comp.out.value, "account_age_days")
              /\ comp.out.value["account_age_days"] =
                     IF parsed THEN RInt(DaysSince(now, d.day)) ELSE RInt(365)
    /\ (Returns(result) /\ ~Has(profile_data, "creation_date")
                        /\ Get(profile_data, "posts", <<>>) = <<>>) =>
          /\ Has(combined, "account_age_days")
          /\ combined["account_age_days"] = RInt(365)

\* C14: followers_to_following_ratio, as FeatureExtractor and as NetworkAnalyzer
\* return it, is 1 when following and followers are both 0, 100 when following
\* is 0 and followers is not, and followers / following when following > 0.
C14_FollowersToFollowingRatio ==
    (comp.op \in {"extract_features", "network"} /\ Returns(comp.out)) =>
        LET followers ==
                IF comp.op = "extract_features"
                     /\ ~Has(profile_data, "followers_count")
                THEN Get(profile_data, "friend_count", 0)
                ELSE Get(profile_data, "followers_count", 0)
            following == Get(profile_data, "following_count", 0)
            ratio == comp.out.value["followers_to_following_ratio"]
        IN  /\ (following = 0 /\ followers = 0) => ratio = RInt(1)
            /\ (following = 0 /\ followers > 0) => ratio = RInt(100)
            /\ following > 0 => ratio = Rat(followers, following)

\* NetworkAnalyzer returned 0.5 for 50 followers and 100 following
C14_Witness ==
    /\ comp.op = "network"
    /\ Returns(comp.out)
    /\ Get(profile_data, "followers_count", 0) = 50
    /\ Get(profile_data, "following_count", 0) = 100
    /\ comp.out.value["followers_to_following_ratio"] = Half

\* the profile has no posts
NoPosts == Get(profile_data, "posts", <<>>) = <<>>

\* C15 as stated: with no posts ActivityAnalyzer.analyze returns
\* activity_analysis_performed = false and 0.5 for each of engagement_rate,
\* posting_regularity, time_zone_consistency and activity_score.
C15_NoPostsAllNeutral ==
    (comp.op = "activity" /\ Returns(comp.out) /\ NoPosts) =>
        /\ comp.out.value["activity_analysis_performed"] = FALSE
        /\ \A k \in {"engagement_rate", "posting_regularity",
                     "time_zone_consistency", "activity_score"} :
              comp.out.value[k] = Half

\* C15, amended: with no posts ActivityAnalyzer.analyze returns
\* activity_analysis_performed = false, 0.5 for posting_regularity,
\* time_zone_consistency and activity_score, and 0 for engagement_rate and
\* posts_per_day.
C15_NoPostsDefaults ==
    (comp.op = "activity" /\ Returns(comp.out) /\ NoPosts) =>
        /\ comp.out.value["activity_analysis_performed"] = FALSE
        /\ \A k \in {"posting_regularity", "time_zone_consistency",
                     "activity_score"} :
              comp.out.value[k] = Half
        /\ \A k \in {"engagement_rate", "posts_per_day"} :
              comp.out.value[k] = Zero

\* ActivityAnalyzer returned for a profile that has a creation date and no posts
C15_Witness ==
    /\ comp.op = "activity"
    /\ Returns(comp.out)
    /\ NoPosts
    /\ Has(profile_data, "creation_date")
    /\ comp.out.value["activity_score"] = Half

\* some post of the profile has text that is not only whitespace
SomeText ==
    LET posts == Get(profile_data, "posts", <<>>)
    IN  \E i \in 1..Len(posts) :
            /\ Has(posts[i], "text")
            /\ posts[i]["text"].kind = "str"
            /\ posts[i]["text"].pieces # <<>>

\* C16: when the profile has no posts, or no post with non-whitespace text,
\* ContentAnalyzer.analyze returns content_analysis_performed = false,
\* sentiment_score = 0.5, content_diversity = 1.0,
\* suspicious_content_score = 0.0 and spam_pattern_matches = 0.
C16_ContentDefaults ==
    (comp.op = "content" /\ ~SomeText) =>
        /\ Returns(comp.out)
        /\ comp.out.value["content_analysis_performed"] = FALSE
        /\ comp.out.value["sentiment_score"] = Half
        /\ comp.out.value["content_diversity"] = One
        /\ comp.out.value["suspicious_content_score"] = Zero
        /\ comp.out.value["spam_pattern_matches"] = Zero

\* some post of the profile carries a timestamp the analyzer can parse: a
\* number in range, a string in one of the two formats or in ISO format
SomeParsableTimestamp ==
    LET posts == Get(profile_data, "posts", <<>>)
    IN  \E i \in 1..Len(posts) :
            /\ Has(posts[i], "timestamp")
            /\ posts[i]["timestamp"].kind \in
                   {"unix", "%Y-%m-%dT%H:%M:%S", "%Y-%m-%d %H:%M:%S", "isoformat"}

\* C17: with posts of which none carries a parsable timestamp,
\* ActivityAnalyzer.analyze returns, with posting_regularity = 0.5,
\* time_zone_consistency = 0.5 and posting_bursts = 0.
C17_NoTimestampDefaults ==
    (comp.op = "activity" /\ ~NoPosts /\ ~SomeParsableTimestamp) =>
        /\ Returns(comp.out)
        /\ comp.out.value["posting_regularity"] = Half
        /\ comp.out.value["time_zone_consistency"] = Half
        /\ comp.out.value["posting_bursts"] = Zero

\* ActivityAnalyzer returned for posts that all carry unparsable timestamps
C17_Witness ==
    /\ comp.op = "activity"
    /\ Returns(comp.out)
    /\ ~SomeParsableTimestamp
    /\ LET posts == Get(profile_data, "posts", <<>>)
       IN  /\ Len(posts) = 3
           /\ \A i \in 1..Len(posts) : Has(posts[i], "timestamp")
    /\ comp.out.value["activity_analysis_performed"] = TRUE
    /\ comp.out.value["posting_bursts"] = Zero

----------------------------------------------------------------------------
(* Indicators and recommendations  (SpecHeur) *)

\* the names of the eight indicators in the order of the conditions
IndicatorOrder ==
    <<"New Account", "Following/Follower Imbalance", "Excessive Posting",
      "Suspicious Profile Picture", "Low Engagement", "Repetitive Content",
      "Suspicious Content", "Isolated Network">>

\* the flag whose condition is the condition of each indicator
IndicatorFlag ==
    <<"new_account", "high_following_ratio", "excessive_posting",
      "suspicious_profile_pic", "low_engagement", "duplicate_content",
      "suspicious_content", "isolated_network">>

\* the position of an indicator's name in IndicatorOrder
IndicatorRank(indicator) ==
    CHOOSE i \in 1..Len(IndicatorOrder) : IndicatorOrder[i] = indicator.name

\* C18: each of the eight indicators is emitted exactly when its own condition
\* holds, whatever the other conditions and the importance mapping are, and
\* the emitted indicators appear in the order New Account, Following/Follower
\* Imbalance, Excessive Posting, Suspicious Profile Picture, Low Engagement,
\* Repetitive Content, Suspicious Content, Isolated Network.
C18_IndicatorsIndependentOrdered ==
    Has(hout, "indicators") =>
        LET indicators == hout.indicators
        IN  /\ \A i \in 1..Len(indicators) :
                  indicators[i].name \in {IndicatorOrder[k] : k \in 1..8}
            /\ \A k \in 1..8 :
                  HasIndicator(indicators, IndicatorOrder[k])
                      <=> Triggers(IndicatorFlag[k], hin)
            /\ \A i \in 1..Len(indicators) : \A j \in 1..Len(indicators) :
                  i < j => IndicatorRank(indicators[i]) < IndicatorRank(indicators[j])

\* all eight indicators emitted together, in order, under an importance
\* mapping that reports no flag
C18_Witness ==
    /\ Has(hout, "indicators")
    /\ hout.passed = [f \in FlagSet |-> Zero]
    /\ hout.importance # hout.passed
    /\ [i \in 1..Len(hout.indicators) |-> hout.indicators[i].name] = IndicatorOrder

\* the three indicators that carry a recommendation of their own, in the order
\* of their recommendations, and those recommendations
SpecificOrder ==
    <<"New Account", "Suspicious Profile Picture", "Suspicious Content">>

SpecificText ==
    <<"This is a new account. Consider waiting for a longer activity history before engaging.",
      "Verify the profile picture by performing a reverse image search.",
      "Review the content posted by this account carefully before engaging.">>

\* the general recommendation of the first band that matches
GeneralText(is_fake, probability) ==
    CASE is_fake /\ RLt(Rat(9, 10), probability) ->
           "This profile is highly likely to be fake. Consider blocking and reporting."
      [] is_fake /\ ~RLt(Rat(9, 10), probability) ->
           "This profile shows several suspicious patterns. Exercise caution when interacting."
      [] ~is_fake /\ RLt(Rat(4, 10), probability) ->
           "This profile shows some suspicious patterns but may be legitimate. Verify before engaging."
      [] OTHER ->
           "This profile appears to be legitimate based on our analysis."

\* C19: the recommendations are the general recommendation of the first
\* matching band (is_fake and probability > 0.9; else is_fake; else
\* probability > 0.4; else the legitimate-profile text) followed, in this
\* order, by one recommendation for each of New Account, Suspicious Profile
\* Picture and Suspicious Content that is among the indicators, and nothing
\* else: between 1 and 4 entries.
C19_Recommendations ==
    Has(hout, "recommendations") =>
        LET recs == hout.recommendations
            present == {k \in 1..3 : HasIndicator(hout.indicators, SpecificOrder[k])}
            \* the position after the general one of the k-th specific recommendation
            Place(k) == 1 + Cardinality({j \in present : j <= k})
        IN  /\ Len(recs) \in 1..4
            /\ Len(recs) = 1 + Cardinality(present)
            /\ recs[1] = GeneralText(hout.verdict[1], hout.verdict[2])
            /\ \A k \in present : recs[Place(k)] = SpecificText[k]

\* a profile judged fake at probability 0.9 exactly, with all eight indicators:
\* the second band's text and the three specific recommendations
C19_Witness ==
    /\ Has(hout, "recommendations")
    /\ hout.verdict = <<TRUE, Rat(9, 10)>>
    /\ Len(hout.indicators) = 8
    /\ hout.recommendations =
          <<"This profile shows several suspicious patterns. Exercise caution when interacting.">>
          \o SpecificText

----------------------------------------------------------------------------
(* Posting bursts  (SpecComp) *)

\* the greedy count over ascending timestamps ts from position i on: a burst
\* when at least 3 posts lie in the 10 minutes that begin at ts[i], end
\* included, resuming after the last of them; one post further otherwise
RECURSIVE GreedyBursts(_, _)
GreedyBursts(ts, i) ==
    IF i > Len(ts) THEN 0
    ELSE LET inWindow == {k \in i..Len(ts) : ts[k] - ts[i] <= 10}
         IN  IF Cardinality(inWindow) >= 3
             THEN 1 + GreedyBursts(ts, i + Cardinality(inWindow))
             ELSE GreedyBursts(ts, i + 1)

\* C20: the number of posting bursts ActivityAnalyzer reports is the greedy
\* count over the timestamps in ascending order (at least 3 posts within the
\* 10-minute window beginning at the earliest unconsumed post, window end
\* inclusive, count one burst and resume after the last post of the window;
\* otherwise advance by one post); fewer than 3 timestamps give 0, and posts
\* at 0, 2, 5 and 40 minutes give exactly 1 burst.
C20_GreedyBursts ==
    (comp.op = "activity" /\ Returns(comp.out) /\ ~NoPosts) =>
        LET timestamps == PostTimestamps(profile_data["posts"])
            bursts == comp.out.value["posting_bursts"]
        IN  /\ bursts = RInt(GreedyBursts(Sorted(timestamps), 1))
            /\ Len(timestamps) < 3 => bursts = Zero
            /\ Sorted(timestamps) = <<0, 2, 5, 40>> => bursts = One

\* posts at 40, 5, 0 and 2 minutes, in this order: one burst
C20_Witness ==
    /\ comp.op = "activity"
    /\ Returns(comp.out)
    /\ ~NoPosts
    /\ PostTimestamps(profile_data["posts"]) = <<40, 5, 0, 2>>
    /\ comp.out.value["posting_bursts"] = One

----------------------------------------------------------------------------
(* The parts of the merged feature map  (SpecComp) *)

\* C21: the partial feature maps FeatureExtractor, ContentAnalyzer,
\* ActivityAnalyzer, ImageAnalyzer and NetworkAnalyzer return for the profile
\* an analysis has merged have pairwise disjoint key sets, and the merged map
\* is the same whichever order they are merged in.
C21_DisjointParts ==
    LET Disjoint(parts) ==
            /\ \A i \in 1..5 : \A j \in 1..5 :
                  i # j => DOMAIN parts[i] \cap DOMAIN parts[j] = {}
            /\ CombineFeatures(parts[5], parts[4], parts[3], parts[2], parts[1])
                   = combined
    IN  (Returns(result) /\ combined # EmptyMap) =>
            Disjoint(<<ExtractFeatures(profile_data, now).value,
                       ContentAnalyze(profile_data).value,
                       ActivityAnalyze(profile_data, now).value,
                       ImageAnalyze(profile_data, rng).out.value,
                       NetworkAnalyze(profile_data).value>>)

\* C22: the posts_per_day FeatureExtractor.extract_features returns is
\* post_count / max(account_age_days, 1), with post_count the explicit field
\* or else the length of the posts list.
C22_ExtractorPostsPerDay ==
    (comp.op = "extract_features" /\ Returns(comp.out)
        /\ Has(comp.out.value, "account_age_days")) =>
        LET features == comp.out.value
            post_count ==
                IF Has(profile_data, "post_count") THEN RInt(profile_data["post_count"])
                ELSE RInt(Len(Get(profile_data, "posts", <<>>)))
        IN  /\ features["post_count"] = post_count
            /\ features["posts_per_day"]
                   = RDiv(post_count, RMax(features["account_age_days"], One))

----------------------------------------------------------------------------
(* NetworkAnalyzer's ratios  (SpecComp) *)

\* the share of the following IDs that are follower IDs too
MutualShare ==
    LET F == UserIds(Get(profile_data, "followers", <<>>))
        G == UserIds(Get(profile_data, "following", <<>>))
    IN  Rat(Cardinality(F \cap G), Cardinality(G))

\* C23 as stated: mutual_connection_ratio and reciprocity both equal
\* |followers /\ following| / |following| over the deduplicated user IDs, and
\* are 0.5 only when the set of following IDs is empty, so that an empty
\* followers list with a non-empty following list gives 0.
C23_MutualOverFollowing ==
    (comp.op = "network" /\ Returns(comp.out)) =>
        LET G == UserIds(Get(profile_data, "following", <<>>))
            expected == IF G = {} THEN Half ELSE MutualShare
        IN  /\ comp.out.value["mutual_connection_ratio"] = expected
            /\ comp.out.value["reciprocity"] = expected

\* C23: mutual_connection_ratio and reciprocity are equal; they are
\* |followers /\ following| / |following| over the deduplicated user IDs when
\* the followers list and the following list are both non-empty and the set
\* of following IDs is non-empty, and the neutral 0.5 in every other case, an
\* empty followers list with a non-empty following list included.
C23_MutualWhenBothLists ==
    (comp.op = "network" /\ Returns(comp.out)) =>
        LET followers == Get(profile_data, "followers", <<>>)
            following == Get(profile_data, "following", <<>>)
            expected ==
                IF followers # <<>> /\ following # <<>> /\ UserIds(following) # {}
                THEN MutualShare ELSE Half
        IN  /\ comp.out.value["mutual_connection_ratio"] = expected
            /\ comp.out.value["reciprocity"] = expected

\* NetworkAnalyzer returned for an empty followers list and a following list
\* of two users: both values are the neutral 0.5
C23_Witness ==
    /\ comp.op = "network"
    /\ Returns(comp.out)
    /\ Has(profile_data, "followers")
    /\ profile_data["followers"] = <<>>
    /\ Cardinality(UserIds(profile_data["following"])) = 2
    /\ comp.out.value["mutual_connection_ratio"] = Half
    /\ comp.out.value["reciprocity"] = Half

----------------------------------------------------------------------------
(* Time-zone consistency  (SpecComp) *)

\* the number of the timestamps whose hour of day is one of the 8 hours that
\* begin at hour h, counted round the clock
InWindow(timestamps, h) ==
    Cardinality({i \in 1..Len(timestamps) :
                    (((timestamps[i] \div 60) % 24) + 24 - h) % 24 < 8})

\* C24: time_zone_consistency is 0.5 for fewer than 5 timestamps and otherwise
\* the largest share of the posts whose hour of day falls in one of the 24
\* circular 8-hour windows; for 5 timestamps or more it is at least 1/3 and at
\* most 1.
C24_DensestWindow ==
    (comp.op = "activity" /\ Returns(comp.out) /\ ~NoPosts) =>
        LET timestamps == PostTimestamps(profile_data["posts"])
            n == Len(timestamps)
            consistency == comp.out.value["time_zone_consistency"]
        IN  IF n < 5 THEN consistency = Half
            ELSE /\ \E h \in 0..23 : consistency = Rat(InWindow(timestamps, h), n)
                 /\ \A h \in 0..23 : RLe(Rat(InWindow(timestamps, h), n), consistency)
                 /\ RLe(Rat(1, 3), consistency)
                 /\ RLe(consistency, One)

\* five posts at 22, 23, 0, 1 and 2 o'clock: one window that passes midnight
\* holds them all
C24_Witness ==
    /\ comp.op = "activity"
    /\ Returns(comp.out)
    /\ ~NoPosts
    /\ PostTimestamps(profile_data["posts"]) = <<1320, 1380, 0, 60, 120>>
    /\ comp.out.value["time_zone_consistency"] = One

\* C25: clustering_coefficient lies in [0.05, 0.8]: with non-empty followers
\* and following lists it is 0.05 + 0.75 * (|F /\ G| + |F /\ I| + |G /\ I|) /
\* (|F| + |G| + |I|) over the deduplicated ID sets of followers F, following G
\* and interactions I (0.5 when the three sets are empty), and otherwise the
\* neutral 0.5.
C25_ClusteringBand ==
    (comp.op = "network" /\ Returns(comp.out)) =>
        LET followers == Get(profile_data, "followers", <<>>)
            following == Get(profile_data, "following", <<>>)
            F == UserIds(followers)
            G == UserIds(following)
            I == UserIds(Get(profile_data, "interactions", <<>>))
            overlap == Cardinality(F \cap G) + Cardinality(F \cap I)
                       + Cardinality(G \cap I)
            size == Cardinality(F) + Cardinality(G) + Cardinality(I)
            clustering == comp.out.value["clustering_coefficient"]
        IN  /\ RLe(Rat(5, 100), clustering)
            /\ RLe(clustering, Rat(8, 10))
            /\ clustering =
                  IF followers = <<>> \/ following = <<>> \/ size = 0 THEN Half
                  ELSE RAdd(Rat(5, 100), RMul(Rat(75, 100), Rat(overlap, size)))

\* followers, following and interactions are the same single user: the
\* coefficient is at the upper end of the band
C25_Witness ==
    /\ comp.op = "network"
    /\ Returns(comp.out)
    /\ Has(profile_data, "interactions")
    /\ UserIds(profile_data["followers"]) = {"ann"}
    /\ UserIds(profile_data["following"]) = {"ann"}
    /\ UserIds(profile_data["interactions"]) = {"ann"}
    /\ comp.out.value["clustering_coefficient"] = Rat(8, 10)

----------------------------------------------------------------------------
(* Flags, verdict and indicators of the heuristic  (SpecHeur) *)

\* C26: the heuristic reports is_fake exactly when at least 6 of the 9 red
\* flags are triggered; with 5 flags or fewer the profile is not fake.
C26_FakeFromSixFlags ==
    Has(hout, "is_fake") =>
        /\ hout.is_fake <=> Cardinality(Triggered(hout)) >= 6
        /\ Cardinality(Triggered(hout)) <= 5 => ~hout.is_fake

\* exactly six flags triggered, and the verdict is fake
C26_Witness ==
    /\ Has(hout, "is_fake")
    /\ Cardinality(Triggered(hout)) = 6
    /\ hout.probability = Rat(69, 90)
    /\ hout.is_fake

\* C27: after the heuristic, each of the 8 indicators is emitted exactly when
\* the flag with the same condition is triggered (Repetitive Content with
\* duplicate_content); no_bio has no indicator, so the number of indicators is
\* the number of triggered flags, less one when no_bio is triggered.
C27_IndicatorsMatchFlags ==
    Has(hout, "indicators") =>
        LET flags == Triggered(hout)
        IN  /\ \A k \in 1..8 :
                  HasIndicator(hout.indicators, IndicatorOrder[k])
                      <=> IndicatorFlag[k] \in flags
            /\ Len(hout.indicators)
                   = Cardinality(flags) - (IF "no_bio" \in flags THEN 1 ELSE 0)

\* no_bio and four other flags triggered: five flags, four indicators
C27_Witness ==
    /\ Has(hout, "indicators")
    /\ "no_bio" \in Triggered(hout)
    /\ Cardinality(Triggered(hout)) = 5
    /\ Len(hout.indicators) = 4

----------------------------------------------------------------------------
(* The engagement rate of the decision  (SpecComp) *)

----------------------------------------------------------------------------
(* Default profile pictures  (SpecComp) *)

\* the profile's picture URL is a string that matches a default-image pattern
DefaultPicture ==
    /\ Has(profile_data, "profile_pic_url")
    /\ profile_data["profile_pic_url"].kind = "str"
    /\ profile_data["profile_pic_url"].default

\* C29: for a picture URL that matches a default-image pattern ImageAnalyzer
\* returns is_default_image true, is_stock_photo and is_ai_generated false,
\* image_quality_score 0.5 and profile_pic_score exactly 0.6; is_default_image
\* is never true together with is_stock_photo or is_ai_generated, and a
\* default image does not exceed the 0.7 of the Suspicious Profile Picture
\* indicator.
C29_DefaultImage ==
    /\ (comp.op = "image" /\ Returns(comp.out)) =>
          LET out == comp.out.value
          IN  /\ DefaultPicture =>
                    /\ out["is_default_image"] = TRUE
                    /\ out["is_stock_photo"] = FALSE
                    /\ out["is_ai_generated"] = FALSE
                    /\ out["image_quality_score"] = Half
                    /\ out["profile_pic_score"] = Rat(6, 10)
              /\ (Has(out, "is_default_image") /\ out["is_default_image"]) =>
                    /\ ~out["is_stock_photo"]
                    /\ ~out["is_ai_generated"]
                    /\ RLe(out["profile_pic_score"], Rat(7, 10))
    /\ (Returns(result) /\ combined # EmptyMap /\ DefaultPicture) =>
          /\ combined["profile_pic_score"] = Rat(6, 10)
          /\ ~HasIndicator(result.value.indicators, "Suspicious Profile Picture")

\* ImageAnalyzer returned for a default picture, and an analysis of the same
\* profile returned its result
C29_Witness ==
    /\ comp.op = "image"
    /\ Returns(comp.out)
    /\ DefaultPicture
    /\ comp.out.value["image_analysis_performed"] = TRUE
    /\ comp.out.value["profile_pic_score"] = Rat(6, 10)
    /\ Returns(result)
    /\ combined # EmptyMap

----------------------------------------------------------------------------
(* _detect_posting_bursts step by step  (SpecScan)

   scan is [pc, timestamps, sorted, i, bursts, taken, result]: i is the scan
   index counted from 1, and taken[k] the number of bursts that have counted
   the k-th post of the sorted list.                                        *)

\* the longest list of timestamps scanned
MaxScan == 6

\* the timestamps of the scanned lists, in minutes: 10 is within the window
\* that begins at 0, 11 is not
ScanTimes == {0, 10, 11}

InitScan ==
    /\ modelFile = NoClassifier
    /\ model = NotConstructed
    /\ now = StartClock
    /\ rng = 0
    /\ profile_data = EmptyMap
    /\ result = NoOutcome
    /\ prev = NoOutcome
    /\ combined = EmptyMap
    /\ batchIn = NoBatch
    /\ batch = NoOutcome
    /\ hin = EmptyMap
    /\ hout = EmptyMap
    /\ comp = [op |-> "", out |-> NoOutcome]
    /\ threads = <<>>
    /\ \E ts \in {<<>>} \cup SeqsUpTo(ScanTimes, MaxScan) :
          scan = [pc |-> "call", timestamps |-> ts, sorted |-> <<>>, i |-> 1,
                  bursts |-> 0, taken |-> [k \in 1..Len(ts) |-> 0], result |-> 0]

ScanUnchanged ==
    UNCHANGED <<modelFile, model, now, rng, profile_data, result, prev, combined,
                batchIn, batch, hin, hout, comp, threads>>

\* lines 273-274: fewer than 3 timestamps
ScanTooFew ==
    /\ scan.pc = "call"
    /\ Len(scan.timestamps) < 3
    /\ scan' = [scan EXCEPT !.pc = "done", !.result = 0]
    /\ ScanUnchanged

\* lines 277-285: sort, bursts = 0, i = 0
ScanSort ==
    /\ scan.pc = "call"
    /\ Len(scan.timestamps) >= 3
    /\ scan' = [scan EXCEPT !.pc = "loop", !.sorted = Sorted(scan.timestamps),
                            !.i = 1, !.bursts = 0]
    /\ ScanUnchanged

\* the scan index after a burst counted from i whose window ended before j,
\* resuming behind the first post of the burst
AfterBurstNext(i, j) == i + 1

\* the scan index after a burst counted from i whose window ended before j
AfterBurst(i, j) == j

\* one iteration that finds at least 3 posts in the window (lines 286-300)
ScanBurst ==
    /\ scan.pc = "loop"
    /\ scan.i <= Len(scan.sorted)
    /\ LET j == WindowEnd(scan.sorted, scan.i, scan.sorted[scan.i] + 10)
       IN  /\ j - scan.i >= 3
           /\ scan' = [scan EXCEPT
                         !.bursts = @ + 1,
                         !.i = AfterBurst(scan.i, j),
                         !.taken = [k \in DOMAIN @ |->
                                      IF k \in scan.i..(j - 1) THEN @[k] + 1
                                      ELSE @[k]]]
    /\ ScanUnchanged

\* one iteration that finds fewer (lines 286-297, 301-302)
ScanAdvance ==
    /\ scan.pc = "loop"
    /\ scan.i <= Len(scan.sorted)
    /\ WindowEnd(scan.sorted, scan.i, scan.sorted[scan.i] + 10) - scan.i < 3
    /\ scan' = [scan EXCEPT !.i = @ + 1]
    /\ ScanUnchanged

\* the loop condition fails: return bursts (lines 286, 304)
ScanReturn ==
    /\ scan.pc = "loop"
    /\ scan.i > Len(scan.sorted)
    /\ scan' = [scan EXCEPT !.pc = "done", !.result = scan.bursts]
    /\ ScanUnchanged

NextScan ==
    \/ ScanTooFew
    \/ ScanSort
    \/ ScanBurst
    \/ ScanAdvance
    \/ ScanReturn

\* the call keeps running until it returns
SpecScan == InitScan /\ [][NextScan]_vars /\ WF_vars(NextScan)

\* C30: every call of _detect_posting_bursts returns; the scan index grows
\* with every iteration; no post is counted by more than one burst; and the
\* count, which is what the analyzer reports, is at most floor(n/3) for n
\* timestamps.
C30_ScanTerminates ==
    /\ <>(scan.pc = "done")
    /\ [][(scan.pc = "loop" /\ scan'.pc = "loop") => scan'.i > scan.i]_vars
    /\ [](/\ \A k \in 1..Len(scan.timestamps) : scan.taken[k] <= 1
          /\ scan.bursts <= Len(scan.timestamps) \div 3
          /\ scan.pc = "done" =>
                /\ scan.result <= Len(scan.timestamps) \div 3
                /\ scan.result = DetectPostingBursts(scan.timestamps))

\* a scan of six posts has returned two bursts: every post was counted once
C30_Witness ==
    /\ scan.pc = "done"
    /\ Len(scan.timestamps) = 6
    /\ scan.result = 2
    /\ \A k \in 1..6 : scan.taken[k] = 1

====
